---- MODULE Spec2Model ----
(***************************************************************************)
(* llm-tracelab: the recording pipeline of the proxy (stream-options       *)
(* injector, recorder, usage sniffer, instrumented response writer, chaos  *)
(* evaluator) and the replay transport, modelled at the level of bytes.    *)
(*                                                                         *)
(* A byte is a one-character string, a byte string is a sequence of them.  *)
(* The record file is the byte string on disk.  Texts are ASCII: the       *)
(* alphabet holds the characters JSON and HTTP framing care about (quote,  *)
(* backslash, newline, CR, braces, colon, comma, digits, letters).         *)
(***************************************************************************)
EXTENDS Integers, Sequences, FiniteSets, TLC

(***************************************************************************)
(* Program constants.                                                      *)
(***************************************************************************)
\* recorder.HeaderLen (and replay.HeaderLen): size of the header slot.
HeaderLen == 2048

\* sniffNonStream: maxBuf, the size of the rolling tail window.
TailMax == 4096

\* sniffStream: 64*1024, the cap of the SSE line buffer.
LineBufMax == 65536

\* httputil.ReverseProxy copies the response with a 32 KiB buffer, so one
\* Read of the response body returns at most this many bytes.
CopyBufLen == 32768

(***************************************************************************)
(* Small helpers on sets and byte strings.                                 *)
(***************************************************************************)
Min(S) == CHOOSE x \in S : \A y \in S : x <= y

Max(S) == CHOOSE x \in S : \A y \in S : x >= y

MinOf(a, b) == IF a <= b THEN a ELSE b

\* s[i..] and s[..n]
Drop(s, n) == SubSeq(s, n + 1, Len(s))

Take(s, n) == SubSeq(s, 1, MinOf(n, Len(s)))

\* n copies of the byte c
Rep(c, n) == [i \in 1..n |-> c]

\* lit occurs in s at index i
StartsWithAt(s, i, lit) ==
    /\ i >= 1
    /\ i + Len(lit) - 1 <= Len(s)
    /\ \A k \in 1..Len(lit) : s[i + k - 1] = lit[k]

\* strings.HasPrefix / bytes.HasPrefix
HasPrefix(s, lit) == StartsWithAt(s, 1, lit)

\* strings.HasSuffix
HasSuffix(s, lit) == StartsWithAt(s, Len(s) - Len(lit) + 1, lit)

\* the indices at which lit occurs in s
Occurrences(s, lit) == {i \in 1..(Len(s) - Len(lit) + 1) : StartsWithAt(s, i, lit)}

\* bytes.Contains / strings.Contains
Contains(s, lit) == Occurrences(s, lit) # {}

\* bytes.IndexByte / strings.Index: first index (1-based), 0 when absent
Index(s, lit) == IF Occurrences(s, lit) = {} THEN 0 ELSE Min(Occurrences(s, lit))

\* strings.LastIndex: last index (1-based), 0 when absent
LastIndex(s, lit) == IF Occurrences(s, lit) = {} THEN 0 ELSE Max(Occurrences(s, lit))

IndexByte(s, c) ==
    LET S == {i \in 1..Len(s) : s[i] = c}
    IN  IF S = {} THEN 0 ELSE Min(S)

\* whitespace of JSON and of strings.TrimSpace (ASCII part)
WS == {" ", "\n", "\r", "\t"}

\* strings.TrimSpace
TrimSpace(s) ==
    IF \A i \in 1..Len(s) : s[i] \in WS THEN <<>>
    ELSE SubSeq(s,
                CHOOSE i \in 1..Len(s) : s[i] \notin WS /\ \A k \in 1..(i - 1) : s[k] \in WS,
                CHOOSE j \in 1..Len(s) : s[j] \notin WS /\ \A k \in (j + 1)..Len(s) : s[k] \in WS)

(***************************************************************************)
(* Decimal numbers.                                                        *)
(***************************************************************************)
DigitChars == <<"0", "1", "2", "3", "4", "5", "6", "7", "8", "9">>

DigitSet == {DigitChars[i] : i \in 1..10}

DigitVal(c) == (CHOOSE i \in 1..10 : DigitChars[i] = c) - 1

RECURSIVE Itoa(_)
\* strconv: the decimal text of an integer (fmt %d, json numbers)
Itoa(n) ==
    IF n < 0 THEN <<"-">> \o Itoa(0 - n)
    ELSE IF n < 10 THEN <<DigitChars[n + 1]>>
    ELSE Itoa(n \div 10) \o <<DigitChars[(n % 10) + 1]>>

RECURSIVE NumVal(_, _, _)
\* the value of the digits s[i..j-1]
NumVal(s, i, j) ==
    IF j <= i THEN 0 ELSE NumVal(s, i, j - 1) * 10 + DigitVal(s[j - 1])

(***************************************************************************)
(* encoding/json, for the JSON the program reads and writes: objects,      *)
(* arrays, strings with the escapes \" \\ \/ \n \r \t, integers, true,     *)
(* false, null.  A value is a record [t, n, s, m]: t the kind, n the       *)
(* number (or 1/0 for a boolean), s the string, m the members of an object *)
(* (or the elements of an array) in text order, each [k |-> key, v |->     *)
(* value].                                                                 *)
(***************************************************************************)
JV(t, n, s, m) == [t |-> t, n |-> n, s |-> s, m |-> m]

JNull == JV("null", 0, <<>>, <<>>)

JBool(b) == JV("bool", IF b THEN 1 ELSE 0, <<>>, <<>>)

JNum(n) == JV("num", n, <<>>, <<>>)

JStr(s) == JV("str", 0, s, <<>>)

JObj(m) == JV("obj", 0, <<>>, m)

JArr(m) == JV("arr", 0, <<>>, m)

Member(k, v) == [k |-> k, v |-> v]

\* the result of a parse: ok, the value, the index after it
Parsed(v, p) == [ok |-> TRUE, v |-> v, p |-> p]

ParseFail == [ok |-> FALSE, v |-> JNull, p |-> 0]

\* first index >= i of s that is not whitespace, Len(s)+1 when there is none
SkipWs(s, i) ==
    IF \E j \in i..Len(s) : s[j] \notin WS
    THEN CHOOSE j \in i..Len(s) : s[j] \notin WS /\ \A k \in i..(j - 1) : s[k] \in WS
    ELSE Len(s) + 1

\* the quote at j is escaped: an odd number of backslashes precedes it
\* (the string opened at i)
EscapedAt(s, i, j) ==
    /\ j - 1 > i
    /\ s[j - 1] = "\\"
    /\ LET B == {m \in i..(j - 1) : s[m] # "\\"}
       IN  ((j - 1 - Max(B)) % 2) = 1

\* index of the quote closing the string opened at i, 0 when unterminated
StrClose(s, i) ==
    IF \E j \in (i + 1)..Len(s) : s[j] = "\"" /\ ~EscapedAt(s, i, j)
    THEN CHOOSE j \in (i + 1)..Len(s) :
            /\ s[j] = "\"" /\ ~EscapedAt(s, i, j)
            /\ \A k \in (i + 1)..(j - 1) : ~(s[k] = "\"" /\ ~EscapedAt(s, i, k))
    ELSE 0

\* the characters that may follow a backslash, and what they stand for
EscapeIn(c) ==
    CASE c = "\"" -> "\""
      [] c = "\\" -> "\\"
      [] c = "/" -> "/"
      [] c = "n" -> "\n"
      [] c = "r" -> "\r"
      [] c = "t" -> "\t"
      [] OTHER -> "?"

EscapeChars == {"\"", "\\", "/", "n", "r", "t"}

\* control characters, which a JSON string may not hold raw
Ctl == {"\n", "\r", "\t"}

RECURSIVE Unescape(_)
\* the content of a string literal decoded; ok is FALSE on a raw control
\* character or an invalid escape
Unescape(t) ==
    LET B == {k \in 1..Len(t) : t[k] = "\\"}
    IN  IF B = {}
        THEN [ok |-> \A k \in 1..Len(t) : t[k] \notin Ctl, s |-> t]
        ELSE LET k == Min(B)
             IN  IF k = Len(t) \/ t[k + 1] \notin EscapeChars
                 THEN [ok |-> FALSE, s |-> <<>>]
                 ELSE LET r == Unescape(Drop(t, k + 1))
                      IN  [ok |-> r.ok /\ \A q \in 1..(k - 1) : t[q] \notin Ctl,
                           s |-> SubSeq(t, 1, k - 1) \o <<EscapeIn(t[k + 1])>> \o r.s]

\* the string literal decoded to u, as the parse result ending before p
StringValue(u, p) == IF u.ok THEN Parsed(JStr(u.s), p) ELSE ParseFail

\* a string literal starting at the quote s[i]
ParseString(s, i) ==
    LET c == StrClose(s, i)
    IN  IF c = 0 THEN ParseFail
        ELSE StringValue(Unescape(SubSeq(s, i + 1, c - 1)), c + 1)

\* first index >= d of s that is not a digit, Len(s)+1 when there is none
DigitsEnd(s, d) ==
    IF \E j \in d..Len(s) : s[j] \notin DigitSet
    THEN CHOOSE j \in d..Len(s) :
            s[j] \notin DigitSet /\ \A k \in d..(j - 1) : s[k] \in DigitSet
    ELSE Len(s) + 1

\* the digits s[d..e-1] as an integer of the given sign; a leading zero, a
\* fraction or an exponent is outside the modelled subset and fails the parse
Digits(s, d, e, sign) ==
    IF e = d THEN ParseFail
    ELSE IF e - d > 1 /\ s[d] = "0" THEN ParseFail
    ELSE IF e <= Len(s) /\ s[e] \in {".", "e", "E"} THEN ParseFail
    ELSE Parsed(JNum(sign * NumVal(s, d, e)), e)

\* an integer literal starting at s[i] (a minus sign or a digit)
ParseNumber(s, i) ==
    IF s[i] = "-" THEN Digits(s, i + 1, DigitsEnd(s, i + 1), -1)
    ELSE Digits(s, i, DigitsEnd(s, i), 1)

\* an object (keyed) or an array of the members m, and the byte closing it
Container(keyed, m) == IF keyed THEN JObj(m) ELSE JArr(m)

Closer(keyed) == IF keyed THEN "}" ELSE "]"

RECURSIVE ParseValue(_, _), ParseMembers(_, _, _, _)
\* after a member, at s[d]: the end of the container or a comma
MemberSep(s, acc, d, keyed) ==
    IF d > Len(s) THEN ParseFail
    ELSE IF s[d] = Closer(keyed) THEN Parsed(Container(keyed, acc), d + 1)
    ELSE IF s[d] = "," THEN ParseMembers(s, SkipWs(s, d + 1), acc, keyed)
    ELSE ParseFail

\* the member of name key whose value parsed to v
MemberEnd(s, acc, key, v, keyed) ==
    IF ~v.ok THEN ParseFail
    ELSE MemberSep(s, Append(acc, Member(key, v.v)), SkipWs(s, v.p), keyed)

\* after the key of a member, parsed to k: the colon and the value
MemberColon(s, acc, k) ==
    IF ~k.ok THEN ParseFail
    ELSE IF SkipWs(s, k.p) > Len(s) \/ s[SkipWs(s, k.p)] # ":" THEN ParseFail
    ELSE MemberEnd(s, acc, k.v.s, ParseValue(s, SkipWs(s, k.p) + 1), TRUE)

\* the members of an object (keyed) or the elements of an array from s[i],
\* the first byte after the opening or after a comma, to the closing byte
ParseMembers(s, i, acc, keyed) ==
    IF i > Len(s) THEN ParseFail
    ELSE IF acc = <<>> /\ s[i] = Closer(keyed) THEN Parsed(Container(keyed, <<>>), i + 1)
    ELSE IF ~keyed THEN MemberEnd(s, acc, <<>>, ParseValue(s, i), FALSE)
    ELSE IF s[i] # "\"" THEN ParseFail
    ELSE MemberColon(s, acc, ParseString(s, i))

\* a JSON value starting at s[i], i past the whitespace
ValueAt(s, i) ==
    IF i > Len(s) THEN ParseFail
    ELSE IF s[i] \in {"{", "["} THEN ParseMembers(s, SkipWs(s, i + 1), <<>>, s[i] = "{")
    ELSE IF s[i] = "\"" THEN ParseString(s, i)
    ELSE IF s[i] = "-" \/ s[i] \in DigitSet THEN ParseNumber(s, i)
    ELSE IF StartsWithAt(s, i, <<"t", "r", "u", "e">>) THEN Parsed(JBool(TRUE), i + 4)
    ELSE IF StartsWithAt(s, i, <<"f", "a", "l", "s", "e">>) THEN Parsed(JBool(FALSE), i + 5)
    ELSE IF StartsWithAt(s, i, <<"n", "u", "l", "l">>) THEN Parsed(JNull, i + 4)
    ELSE ParseFail

\* a JSON value starting at or after s[i0]
ParseValue(s, i0) == ValueAt(s, SkipWs(s, i0))

\* the parse r of the text s, when a whole value and nothing else was read
WholeValue(s, r) == IF r.ok /\ SkipWs(s, r.p) > Len(s) THEN r ELSE ParseFail

\* json.Unmarshal's syntax check and parse of a whole text: one value,
\* whitespace around it, nothing else
Unmarshal(s) == WholeValue(s, ParseValue(s, 1))

\* the value of key k in object v (the last member of that name wins),
\* JNull with has = FALSE when absent
ObjGet(v, k) ==
    LET S == {i \in 1..Len(v.m) : v.m[i].k = k}
    IN  IF v.t # "obj" \/ S = {} THEN [has |-> FALSE, v |-> JNull]
        ELSE [has |-> TRUE, v |-> v.m[Max(S)].v]

\* the characters json.Marshal escapes inside a string, and their escapes
EscapeOut(c) ==
    CASE c = "\"" -> <<"\\", "\"">>
      [] c = "\\" -> <<"\\", "\\">>
      [] c = "\n" -> <<"\\", "n">>
      [] c = "\r" -> <<"\\", "r">>
      [] c = "\t" -> <<"\\", "t">>
      [] OTHER -> <<c>>

NeedsEscape == {"\"", "\\", "\n", "\r", "\t"}

RECURSIVE EscapeStr(_)
EscapeStr(t) ==
    LET B == {k \in 1..Len(t) : t[k] \in NeedsEscape}
    IN  IF B = {} THEN t
        ELSE LET k == Min(B)
             IN  SubSeq(t, 1, k - 1) \o EscapeOut(t[k]) \o EscapeStr(Drop(t, k))

EncodeStr(t) == <<"\"">> \o EscapeStr(t) \o <<"\"">>

RECURSIVE Marshal(_), MarshalMembers(_, _)
\* json.Marshal of a value whose members are already in output order
Marshal(v) ==
    CASE v.t = "null" -> <<"n", "u", "l", "l">>
      [] v.t = "bool" -> (IF v.n = 1 THEN <<"t", "r", "u", "e">> ELSE <<"f", "a", "l", "s", "e">>)
      [] v.t = "num" -> Itoa(v.n)
      [] v.t = "str" -> EncodeStr(v.s)
      [] v.t = "obj" -> <<"{">> \o MarshalMembers(v.m, TRUE) \o <<"}">>
      [] v.t = "arr" -> <<"[">> \o MarshalMembers(v.m, FALSE) \o <<"]">>

MarshalMembers(m, keyed) ==
    IF m = <<>> THEN <<>>
    ELSE (IF keyed THEN EncodeStr(m[1].k) \o <<":">> ELSE <<>>)
         \o Marshal(m[1].v)
         \o (IF Len(m) > 1 THEN <<",">> ELSE <<>>)
         \o MarshalMembers(Tail(m), keyed)

(***************************************************************************)
(* The recorder's types (package recorder) and their JSON form.            *)
(***************************************************************************)
\* the JSON names of the struct fields (the json:"..." tags), and the keys
\* of the request body that ensureStreamOptions reads
Key ==
    [
      version |-> <<"v","e","r","s","i","o","n">>,
      meta |-> <<"m","e","t","a">>,
      request_id |-> <<"r","e","q","u","e","s","t","_","i","d">>,
      time |-> <<"t","i","m","e">>,
      model |-> <<"m","o","d","e","l">>,
      url |-> <<"u","r","l">>,
      method |-> <<"m","e","t","h","o","d">>,
      status_code |-> <<"s","t","a","t","u","s","_","c","o","d","e">>,
      duration_ms |-> <<"d","u","r","a","t","i","o","n","_","m","s">>,
      ttft_ms |-> <<"t","t","f","t","_","m","s">>,
      client_ip |-> <<"c","l","i","e","n","t","_","i","p">>,
      content_length |-> <<"c","o","n","t","e","n","t","_","l","e","n","g","t","h">>,
      error |-> <<"e","r","r","o","r">>,
      layout |-> <<"l","a","y","o","u","t">>,
      req_header_len |-> <<"r","e","q","_","h","e","a","d","e","r","_","l","e","n">>,
      req_body_len |-> <<"r","e","q","_","b","o","d","y","_","l","e","n">>,
      res_header_len |-> <<"r","e","s","_","h","e","a","d","e","r","_","l","e","n">>,
      res_body_len |-> <<"r","e","s","_","b","o","d","y","_","l","e","n">>,
      is_stream |-> <<"i","s","_","s","t","r","e","a","m">>,
      usage |-> <<"u","s","a","g","e">>,
      prompt_tokens |-> <<"p","r","o","m","p","t","_","t","o","k","e","n","s">>,
      completion_tokens |-> <<"c","o","m","p","l","e","t","i","o","n","_","t","o","k","e","n","s">>,
      total_tokens |-> <<"t","o","t","a","l","_","t","o","k","e","n","s">>,
      prompt_tokens_details |-> <<"p","r","o","m","p","t","_","t","o","k","e","n","s","_","d","e","t","a","i","l","s">>,
      cached_tokens |-> <<"c","a","c","h","e","d","_","t","o","k","e","n","s">>,
      stream |-> <<"s","t","r","e","a","m">>,
      stream_options |-> <<"s","t","r","e","a","m","_","o","p","t","i","o","n","s">>,
      include_usage |-> <<"i","n","c","l","u","d","e","_","u","s","a","g","e">>
    ]

\* the member g of an object (a result of ObjGet) decoded into a struct
\* field of the given kind: ok is FALSE on a JSON value of the wrong kind
\* (json.UnmarshalTypeError); an absent or null member leaves the field at
\* its zero value
FieldOf(g, kind, zero) ==
    IF ~g.has \/ g.v.t = "null" THEN [ok |-> TRUE, x |-> zero]
    ELSE IF g.v.t # kind THEN [ok |-> FALSE, x |-> zero]
    ELSE [ok |-> TRUE,
          x |-> CASE kind = "str" -> g.v.s
                  [] kind = "num" -> g.v.n
                  [] kind = "bool" -> (g.v.n = 1)
                  [] OTHER -> g.v]

Field(o, k, kind, zero) == FieldOf(ObjGet(o, k), kind, zero)

\* every field of the sequence f of decoded fields is ok
Decoded(f) == \A i \in 1..Len(f) : f[i].ok

\* UsageInfo: details is <<>> for a nil *PromptTokenDetails, <<n>> for one
\* with cached_tokens n
UsageInfo(p, c, t, d) ==
    [prompt_tokens |-> p, completion_tokens |-> c, total_tokens |-> t, details |-> d]

ZeroUsage == UsageInfo(0, 0, 0, <<>>)

\* the decoded prompt_tokens_details field d as the details of a UsageInfo
\* (c: its cached_tokens decoded)
DetailsOf(d, c) ==
    IF d.x.t = "obj" THEN [ok |-> d.ok /\ c.ok, x |-> <<c.x>>]
    ELSE [ok |-> d.ok, x |-> <<>>]

\* the UsageInfo made of the decoded fields f
UsageOf(f) == [ok |-> Decoded(f), u |-> UsageInfo(f[1].x, f[2].x, f[3].x, f[4].x)]

\* json.Unmarshal of a parsed value into a UsageInfo
DecodeUsage(v) ==
    IF v.t = "null" THEN [ok |-> TRUE, u |-> ZeroUsage]
    ELSE IF v.t # "obj" THEN [ok |-> FALSE, u |-> ZeroUsage]
    ELSE UsageOf(<<Field(v, Key.prompt_tokens, "num", 0),
                   Field(v, Key.completion_tokens, "num", 0),
                   Field(v, Key.total_tokens, "num", 0),
                   DetailsOf(Field(v, Key.prompt_tokens_details, "obj", JNull),
                             Field(Field(v, Key.prompt_tokens_details, "obj", JNull).x,
                                   Key.cached_tokens, "num", 0))>>)

\* the JSON object json.Marshal makes of a UsageInfo (omitempty on details)
UsageJSON(u) ==
    JObj(<<Member(Key.prompt_tokens, JNum(u.prompt_tokens)),
           Member(Key.completion_tokens, JNum(u.completion_tokens)),
           Member(Key.total_tokens, JNum(u.total_tokens))>>
         \o (IF u.details = <<>> THEN <<>>
             ELSE <<Member(Key.prompt_tokens_details,
                           JObj(<<Member(Key.cached_tokens, JNum(u.details[1]))>>))>>))

LayoutInfo(rqh, rqb, rsh, rsb, st) ==
    [req_header_len |-> rqh, req_body_len |-> rqb,
     res_header_len |-> rsh, res_body_len |-> rsb, is_stream |-> st]

LayoutJSON(l) ==
    JObj(<<Member(Key.req_header_len, JNum(l.req_header_len)),
           Member(Key.req_body_len, JNum(l.req_body_len)),
           Member(Key.res_header_len, JNum(l.res_header_len)),
           Member(Key.res_body_len, JNum(l.res_body_len)),
           Member(Key.is_stream, JBool(l.is_stream))>>)

\* the LayoutInfo made of the decoded fields f
LayoutOf(ok, f) ==
    [ok |-> ok /\ Decoded(f), l |-> LayoutInfo(f[1].x, f[2].x, f[3].x, f[4].x, f[5].x)]

\* json.Unmarshal of the decoded layout member g into a LayoutInfo
DecodeLayout(g) ==
    LayoutOf(g.ok, <<Field(g.x, Key.req_header_len, "num", 0),
                     Field(g.x, Key.req_body_len, "num", 0),
                     Field(g.x, Key.res_header_len, "num", 0),
                     Field(g.x, Key.res_body_len, "num", 0),
                     Field(g.x, Key.is_stream, "bool", FALSE)>>)

\* MetaData; the strings are byte strings, time is its RFC 3339 text
MetaData(id, tm, model, url, method, status, dur, ttft, ip, clen, err) ==
    [request_id |-> id, time |-> tm, model |-> model, url |-> url, method |-> method,
     status_code |-> status, duration_ms |-> dur, ttft_ms |-> ttft, client_ip |-> ip,
     content_length |-> clen, error |-> err]

MetaJSON(m) ==
    JObj(<<Member(Key.request_id, JStr(m.request_id)),
           Member(Key.time, JStr(m.time)),
           Member(Key.model, JStr(m.model)),
           Member(Key.url, JStr(m.url)),
           Member(Key.method, JStr(m.method)),
           Member(Key.status_code, JNum(m.status_code)),
           Member(Key.duration_ms, JNum(m.duration_ms)),
           Member(Key.ttft_ms, JNum(m.ttft_ms)),
           Member(Key.client_ip, JStr(m.client_ip)),
           Member(Key.content_length, JNum(m.content_length))>>
         \o (IF m.error = <<>> THEN <<>> ELSE <<Member(Key.error, JStr(m.error))>>))

\* the MetaData made of the decoded fields f
MetaOf(ok, f) ==
    [ok |-> ok /\ Decoded(f),
     m |-> MetaData(f[1].x, f[2].x, f[3].x, f[4].x, f[5].x, f[6].x, f[7].x, f[8].x,
                    f[9].x, f[10].x, f[11].x)]

\* json.Unmarshal of the decoded meta member g into a MetaData
DecodeMeta(g) ==
    MetaOf(g.ok, <<Field(g.x, Key.request_id, "str", <<>>),
                   Field(g.x, Key.time, "str", <<>>),
                   Field(g.x, Key.model, "str", <<>>),
                   Field(g.x, Key.url, "str", <<>>),
                   Field(g.x, Key.method, "str", <<>>),
                   Field(g.x, Key.status_code, "num", 0),
                   Field(g.x, Key.duration_ms, "num", 0),
                   Field(g.x, Key.ttft_ms, "num", 0),
                   Field(g.x, Key.client_ip, "str", <<>>),
                   Field(g.x, Key.content_length, "num", 0),
                   Field(g.x, Key.error, "str", <<>>)>>)

RecordHeader(version, meta, layout, usage) ==
    [version |-> version, meta |-> meta, layout |-> layout, usage |-> usage]

\* json.Marshal(info.Header)
MarshalHeader(h) ==
    Marshal(JObj(<<Member(Key.version, JStr(h.version)),
                   Member(Key.meta, MetaJSON(h.meta)),
                   Member(Key.layout, LayoutJSON(h.layout)),
                   Member(Key.usage, UsageJSON(h.usage))>>))

EmptyObj == JObj(<<>>)

\* the RecordHeader made of its decoded members
HeaderOf(ve, m, l, usOk, u) ==
    IF ve.ok /\ m.ok /\ l.ok /\ usOk /\ u.ok
    THEN [ok |-> TRUE, h |-> RecordHeader(ve.x, m.m, l.l, u.u)]
    ELSE [ok |-> FALSE]

\* the RecordHeader decoded from the parse r of a text
HeaderFrom(r) ==
    IF ~r.ok \/ r.v.t # "obj" THEN [ok |-> FALSE]
    ELSE HeaderOf(Field(r.v, Key.version, "str", <<>>),
                  DecodeMeta(Field(r.v, Key.meta, "obj", EmptyObj)),
                  DecodeLayout(Field(r.v, Key.layout, "obj", EmptyObj)),
                  Field(r.v, Key.usage, "obj", EmptyObj).ok,
                  DecodeUsage(Field(r.v, Key.usage, "obj", EmptyObj).x))

\* json.Unmarshal(text, &header) for a RecordHeader: ok is FALSE when the
\* text is not valid JSON or a member has the wrong kind
UnmarshalHeader(text) == HeaderFrom(Unmarshal(text))

(***************************************************************************)
(* Texts of the program and of the HTTP messages it dumps.                 *)
(***************************************************************************)
Txt ==
    [
      crlf |-> <<"\r","\n">>,
      http11 |-> <<"H","T","T","P","/","1",".","1">>,
      httpSlash |-> <<"H","T","T","P","/">>,
      host |-> <<"l","o","c","a","l","h","o","s","t",":","8","0","8","0">>,
      hHost |-> <<"H","o","s","t">>,
      hAuth |-> <<"A","u","t","h","o","r","i","z","a","t","i","o","n">>,
      hCLen |-> <<"C","o","n","t","e","n","t","-","L","e","n","g","t","h">>,
      hCType |-> <<"C","o","n","t","e","n","t","-","T","y","p","e">>,
      hTE |-> <<"T","r","a","n","s","f","e","r","-","E","n","c","o","d","i","n","g">>,
      json |-> <<"a","p","p","l","i","c","a","t","i","o","n","/","j","s","o","n">>,
      sse |-> <<"t","e","x","t","/","e","v","e","n","t","-","s","t","r","e","a","m">>,
      chunked |-> <<"c","h","u","n","k","e","d">>,
      fakeKey |-> <<"B","e","a","r","e","r"," ","f","a","k","e","-","k","e","y","-","l","o","g","g","i","n","g">>,
      clientKey |-> <<"B","e","a","r","e","r"," ","s","k","-","c","l","i","e","n","t">>,
      data |-> <<"d","a","t","a",":">>,
      usageQ |-> <<"\"","u","s","a","g","e","\"">>,
      unknownModel |-> <<"u","n","k","n","o","w","n","-","m","o","d","e","l">>,
      listModels |-> <<"l","i","s","t","_","m","o","d","e","l","s">>,
      modelsSuffix |-> <<"/","m","o","d","e","l","s">>,
      version |-> <<"L","L","M","_","P","R","O","X","Y","_","V","2">>,
      POST |-> <<"P","O","S","T">>,
      GET |-> <<"G","E","T">>,
      HEAD |-> <<"H","E","A","D">>,
      proxyError |-> <<"P","r","o","x","y"," ","E","r","r","o","r",":"," ","d","i","a","l"," ","t","c","p",":"," ","c","o","n","n","e","c","t","i","o","n"," ","r","e","f","u","s","e","d","\n">>,
      loggingError |-> <<"I","n","t","e","r","n","a","l"," ","L","o","g","g","i","n","g"," ","E","r","r","o","r","\n">>,
      chaosMessage |-> <<"C","h","a","o","s"," ","I","n","j","e","c","t","i","o","n"," ","E","r","r","o","r">>,
      star |-> <<"*">>,
      ok200 |-> <<"2","0","0"," ","O","K">>,
      s503 |-> <<"5","0","3"," ","S","e","r","v","i","c","e"," ","U","n","a","v","a","i","l","a","b","l","e">>,
      time |-> <<"2","0","2","5","-","0","1","-","0","2","T","0","3",":","0","4",":","0","5",".","0","0","0","0","0","0","0","0","6","Z">>,
      requestID |-> <<"1","7","3","5","7","8","7","0","4","5","0","0","0","0","0","0","0","0","6">>,
      clientIP |-> <<"1","2","7",".","0",".","0",".","1",":","5","0","0","0","0">>,
      chatPath |-> <<"/","v","1","/","c","h","a","t","/","c","o","m","p","l","e","t","i","o","n","s">>,
      modelsPath |-> <<"/","v","1","/","m","o","d","e","l","s">>
    ]

\* the alphabet in byte order (strings compare bytewise when json.Marshal
\* sorts the keys of a map)
AsciiOrder ==
    <<"\t","\n","\r"," ","\"","&","*",",","-",".","/","0","1","2","3","4","5","6","7","8","9",":","=","?","A","B","C","D","E","F","G","H","I","J","K","L","M","N","O","P","Q","R","S","T","U","V","W","X","Y","Z","[","\\","]","_","a","b","c","d","e","f","g","h","i","j","k","l","m","n","o","p","q","r","s","t","u","v","w","x","y","z","{","}">>

Ord(c) == CHOOSE i \in 1..Len(AsciiOrder) : AsciiOrder[i] = c

\* a < b as byte strings
Less(a, b) ==
    LET D == {i \in 1..MinOf(Len(a), Len(b)) : a[i] # b[i]}
    IN  IF D = {} THEN Len(a) < Len(b)
        ELSE Ord(a[Min(D)]) < Ord(b[Min(D)])

(***************************************************************************)
(* json.Unmarshal into map[string]interface{} and json.Marshal of it: a    *)
(* map keeps one value per key (the last in the text) and is written with  *)
(* its keys sorted.                                                        *)
(***************************************************************************)
RECURSIVE InsertMember(_, _)
\* member e put into the key-sorted sequence m, replacing one of its key
InsertMember(m, e) ==
    IF m = <<>> THEN <<e>>
    ELSE IF m[1].k = e.k THEN <<e>> \o Tail(m)
    ELSE IF Less(e.k, m[1].k) THEN <<e>> \o m
    ELSE <<m[1]>> \o InsertMember(Tail(m), e)

RECURSIVE ToMap(_), ToMapMembers(_, _, _)
\* the value as Go holds it after decoding into interface{}: every object
\* a map
ToMap(v) ==
    IF v.t = "obj" THEN JObj(ToMapMembers(v.m, <<>>, TRUE))
    ELSE IF v.t = "arr" THEN JArr(ToMapMembers(v.m, <<>>, FALSE))
    ELSE v

ToMapMembers(m, acc, keyed) ==
    IF m = <<>> THEN acc
    ELSE LET e == Member(m[1].k, ToMap(m[1].v))
         IN  ToMapMembers(Tail(m), IF keyed THEN InsertMember(acc, e) ELSE Append(acc, e), keyed)

\* payload[k] = v on a map
MapSet(o, k, v) == JObj(InsertMember(o.m, Member(k, v)))

(***************************************************************************)
(* HTTP messages.  A header is a sequence of [k |-> name, v |-> value] in  *)
(* the order Header.Write emits them (sorted by name).                     *)
(***************************************************************************)
HeaderLine(k, v) == k \o <<":", " ">> \o v \o Txt.crlf

RECURSIVE HeaderWrite(_)
\* http.Header.Write
HeaderWrite(h) ==
    IF h = <<>> THEN <<>> ELSE HeaderLine(h[1].k, h[1].v) \o HeaderWrite(Tail(h))

\* Header.Get: the value of the header named k, <<>> when absent
HeaderGet(h, k) ==
    LET S == {i \in 1..Len(h) : h[i].k = k}
    IN  IF S = {} THEN <<>> ELSE h[Min(S)].v

\* httputil.DumpRequest(req, false) of a request the server received: the
\* request line, the Host line, the other headers, an empty line
DumpRequest(req) ==
    req.method \o <<" ">> \o req.url \o <<" ">> \o Txt.http11 \o Txt.crlf
    \o HeaderLine(Txt.hHost, Txt.host)
    \o HeaderWrite(req.header)
    \o Txt.crlf

\* the status line and headers ModifyResponse writes to the record file
DumpResponseHeader(resp) ==
    resp.proto \o <<" ">> \o resp.status \o Txt.crlf
    \o HeaderWrite(resp.header)
    \o Txt.crlf

(***************************************************************************)
(* Bounds of the model and the inputs drawn within them.                   *)
(***************************************************************************)
\* I/O failures (a failing read, a failing or partial write, a failing
\* mkdir or create) injected in one request
MaxFaults == 1

\* the size of the pieces a short response body arrives in
MaxChunk == 16

\* the size of the pieces a short response body arrives in when reads and
\* writes may fail
FaultChunk == 64

\* the size of the pieces a long response body arrives in, and the longest
\* body that counts as short
BigChunk == 1024

ShortBody == 256

\* the length of the filler member of the long response bodies
PadLen == 4096

\* the length of the query of the request with a long URL; with it the
\* serialized header is around HeaderLen bytes long
LongQuery == 1611

\* milliseconds the clock shows at the first write to the client, and at
\* the end of the request
TtftMs == 3

DurationMs == 8

\* the sizes a Read at offset pos of a body with rem bytes left may return
\* (in "pieces" every offset is the end of some first Read, so every split
\* point of the body is explored)
ReadSizes(pos, rem, e, total) ==
    CASE e = "whole" -> {MinOf(rem, CopyBufLen)}
      [] e = "pieces" /\ pos = 0 -> 1..MinOf(rem, MaxChunk)
      [] e = "pieces" -> {MinOf(rem, IF total <= ShortBody THEN MaxChunk ELSE BigChunk)}
      [] OTHER -> {MinOf(rem, IF total <= ShortBody THEN FaultChunk ELSE BigChunk)}

\* the byte counts a failing write of n bytes may report: nothing written,
\* or all but the last byte
PartialSizes(n) == {0} \cup (IF n > 1 THEN {n - 1} ELSE {})

\* the bytes of a file after data is written at offset off
WriteAt(f, off, data) == Take(f, off) \o data \o Drop(f, off + Len(data))

\* the 2048-byte slot PrepareLogFile reserves: spaces, then a newline
Padding == Rep(" ", HeaderLen - 1) \o <<"\n">>

\* Header.Set on a header kept sorted by name
HeaderSet(h, k, v) == InsertMember(h, Member(k, v))

\* an incoming request as the server hands it to ServeHTTP.  body is what
\* reading req.Body yields, bodyErr whether that read ends in an error
NewRequest(method, path, query, header, body, bodyErr) ==
    [method |-> method, path |-> path, query |-> query,
     url |-> path \o (IF query = <<>> THEN <<>> ELSE <<"?">> \o query),
     header |-> header, body |-> body, bodyErr |-> bodyErr,
     ContentLength |-> Len(body)]

JSONHeaders(body) ==
    <<Member(Txt.hAuth, Txt.clientKey),
      Member(Txt.hCLen, Itoa(Len(body))),
      Member(Txt.hCType, Txt.json)>>

\* request bodies
BodyStream == <<"{","\"","m","o","d","e","l","\"",":","\"","m","1","\"",",","\"","s","t","r","e","a","m","\"",":","t","r","u","e","}">>

BodyStreamOpts == <<"{","\"","s","t","r","e","a","m","_","o","p","t","i","o","n","s","\"",":","{","\"","i","n","c","l","u","d","e","_","u","s","a","g","e","\"",":","t","r","u","e","}",",","\"","s","t","r","e","a","m","\"",":","t","r","u","e",",","\"","m","o","d","e","l","\"",":","\"","M","1","\"","}">>

BodyPlain == <<"{","\"","m","o","d","e","l","\"",":","\"","o","/","a","\\","n","b","\"",",","\"","n","\"",":","1","}">>

BodyNotJSON == <<"m","o","d","e","l","=","m","1">>

Requests ==
    {NewRequest(Txt.POST, Txt.chatPath, <<>>, JSONHeaders(b), b, FALSE) :
        b \in {BodyStream, BodyStreamOpts, BodyPlain, BodyNotJSON}}
    \cup {NewRequest(Txt.POST, Txt.chatPath, <<>>, JSONHeaders(BodyStream), Take(BodyStream, 9), TRUE)}
    \cup {NewRequest(Txt.GET, Txt.modelsPath, q, <<>>, <<>>, FALSE) :
            q \in {<<>>, Rep("q", LongQuery)}}

\* an upstream response as the transport hands it to ModifyResponse
NewResponse(code, status, header, body) ==
    [proto |-> Txt.http11, code |-> code, status |-> status, header |-> header, body |-> body]

RespBodyJSON == <<"{","\"","i","d","\"",":","\"","c","1","\"",",","\"","u","s","a","g","e","\"",":","{","\"","p","r","o","m","p","t","_","t","o","k","e","n","s","\"",":","5",",","\"","c","o","m","p","l","e","t","i","o","n","_","t","o","k","e","n","s","\"",":","7",",","\"","t","o","t","a","l","_","t","o","k","e","n","s","\"",":","1","2","}","}">>

RespBodySSE == <<"d","a","t","a",":"," ","{","\"","c","\"",":","\"","A","\"",",","\"","u","s","a","g","e","\"",":","n","u","l","l","}","\n","\n","d","a","t","a",":"," ","{","\"","u","s","a","g","e","\"",":","{","\"","t","o","t","a","l","_","t","o","k","e","n","s","\"",":","9","}","}","\n","\n","d","a","t","a",":"," ","{","\"","u","s","a","g","e","\"",":","{","\"","p","r","o","m","p","t","_","t","o","k","e","n","s","\"",":","5",",","\"","t","o","t","a","l","_","t","o","k","e","n","s","\"",":","1","4","}","}","\n","\n","d","a","t","a",":"," ","{","\"","u","s","a","g","e","\"",":","{","\"","t","o","t","a","l","_","t","o","k","e","n","s","\"",":","0","}","}","\n","\n","d","a","t","a",":"," ","[","D","O","N","E","]","\n","\n">>

\* long bodies: the usage member before, and after, PadLen bytes of filler
RespBodyUsageFirst ==
    <<"{","\"","u","s","a","g","e","\"",":","{","\"","t","o","t","a","l","_","t","o","k","e","n","s","\"",":","2","1","}",",","\"","p","a","d","\"",":","\"">> \o Rep("x", PadLen) \o <<"\"","}">>

RespBodyUsageLast ==
    <<"{","\"","p","a","d","\"",":","\"">> \o Rep("x", PadLen) \o <<"\"",",","\"","u","s","a","g","e","\"",":","{","\"","t","o","t","a","l","_","t","o","k","e","n","s","\"",":","3","3","}","}">>

RespBodyError == <<"{","\"","e","r","r","o","r","\"",":","\"","o","v","e","r","l","o","a","d","e","d","\"","}">>

Responses ==
    <<NewResponse(200, Txt.ok200,
                  <<Member(Txt.hCLen, Itoa(Len(RespBodyJSON))), Member(Txt.hCType, Txt.json)>>,
                  RespBodyJSON),
      NewResponse(200, Txt.ok200, <<Member(Txt.hCType, Txt.sse)>>, RespBodySSE),
      NewResponse(503, Txt.s503,
                  <<Member(Txt.hCLen, Itoa(Len(RespBodyError))), Member(Txt.hCType, Txt.json)>>,
                  RespBodyError),
      NewResponse(200, Txt.ok200,
                  <<Member(Txt.hCLen, Itoa(Len(RespBodyUsageFirst))), Member(Txt.hCType, Txt.json)>>,
                  RespBodyUsageFirst),
      NewResponse(200, Txt.ok200,
                  <<Member(Txt.hCLen, Itoa(Len(RespBodyUsageLast))), Member(Txt.hCType, Txt.json)>>,
                  RespBodyUsageLast)>>

(***************************************************************************)
(* Stream-options injector (package proxy).                                *)
(***************************************************************************)
\* the request with its body replaced by newBytes, as step 6 of
\* ensureStreamOptions leaves it
WithBody(req, newBytes) ==
    [req EXCEPT !.body = newBytes,
                !.ContentLength = Len(newBytes),
                !.header = HeaderSet(req.header, Txt.hCLen, Itoa(Len(newBytes)))]

\* a member that is present with the value true
IsTrue(g) == g.has /\ g.v = JBool(TRUE)

\* a variant of withStreamOptions that negates include_usage whenever
\* stream_options is an object
withStreamOptionsNegated(req, payload, opts) ==
    IF opts.has /\ opts.v.t = "obj"
    THEN WithBody(req, Marshal(MapSet(payload, Key.stream_options,
                                      MapSet(opts.v, Key.include_usage,
                                             JBool(~IsTrue(ObjGet(opts.v, Key.include_usage)))))))
    ELSE WithBody(req, Marshal(MapSet(payload, Key.stream_options,
                                      JObj(<<Member(Key.include_usage, JBool(TRUE))>>))))

\* the request after payload["stream_options"] was examined (opts) and,
\* where needed, include_usage set and the body re-encoded
withStreamOptions(req, payload, opts) ==
    IF opts.has /\ opts.v.t = "obj"
    THEN IF IsTrue(ObjGet(opts.v, Key.include_usage)) THEN req
         ELSE WithBody(req, Marshal(MapSet(payload, Key.stream_options,
                                           MapSet(opts.v, Key.include_usage, JBool(TRUE)))))
    ELSE WithBody(req, Marshal(MapSet(payload, Key.stream_options,
                                      JObj(<<Member(Key.include_usage, JBool(TRUE))>>))))

\* the request after the body was decoded into the map payload
withPayload(req, payload) ==
    IF ~IsTrue(ObjGet(payload, Key.stream)) THEN req
    ELSE withStreamOptions(req, payload, ObjGet(payload, Key.stream_options))

\* the request after the body was parsed to r
withParsedBody(req, r) ==
    IF ~r.ok \/ r.v.t # "obj" THEN req ELSE withPayload(req, ToMap(r.v))

\* ensureStreamOptions: the request it leaves behind
ensureStreamOptions(req) ==
    IF req.method # Txt.POST \/ ~Contains(HeaderGet(req.header, Txt.hCType), Txt.json)
    THEN req
    ELSE IF req.bodyErr
    THEN [req EXCEPT !.body = <<>>]
    ELSE withParsedBody(req, Unmarshal(req.body))

(***************************************************************************)
(* Usage sniffer (package proxy).                                          *)
(***************************************************************************)
\* a variant of assignUsage that keeps the first positive total it meets
assignUsageOnce(u, target) ==
    IF u.ok /\ u.u.total_tokens > 0 /\ target.total_tokens = 0 THEN u.u ELSE target

\* a variant of assignUsage that takes every usage that decoded
assignUsageDecoded(u, target) == IF u.ok THEN u.u ELSE target

\* *target = u when u decoded and carries a positive total
assignUsage(u, target) == IF u.ok /\ u.u.total_tokens > 0 THEN u.u ELSE target

\* the usage after the JSON of a data line parsed to r was decoded into
\* struct { Usage *UsageInfo }
chunkUsage(r, usage) ==
    IF ~r.ok \/ r.v.t \notin {"obj", "null"} THEN usage
    ELSE IF ~ObjGet(r.v, Key.usage).has \/ ObjGet(r.v, Key.usage).v.t = "null" THEN usage
    ELSE assignUsage(DecodeUsage(ObjGet(r.v, Key.usage).v), usage)

\* the body of the loop of sniffStream for one complete line: the usage
\* after the line has been looked at
sniffLine(line, usage) ==
    IF ~Contains(line, Txt.usageQ) THEN usage
    ELSE IF ~HasPrefix(line, Txt.data) THEN usage
    ELSE chunkUsage(Unmarshal(TrimSpace(Drop(line, Len(Txt.data)))), usage)

RECURSIVE splitLines(_, _)
\* the for loop of sniffStream: complete lines are taken off the front of
\* the buffer one by one
splitLines(lineBuf, usage) ==
    LET idx == IndexByte(lineBuf, "\n")
    IN  IF idx = 0 THEN [lineBuf |-> lineBuf, usage |-> usage]
        ELSE splitLines(Drop(lineBuf, idx), sniffLine(SubSeq(lineBuf, 1, idx - 1), usage))

\* a variant of sniffStream that keeps the leading bytes of a buffer that
\* grew too long
sniffStreamKeepHead(lineBuf, usage, chunk) ==
    splitLines(Take(lineBuf \o chunk, LineBufMax), usage)

\* sniffStream: the line buffer and the usage after one chunk
sniffStream(lineBuf, usage, chunk) ==
    LET appended == lineBuf \o chunk
        capped == IF Len(appended) > LineBufMax
                  THEN Drop(appended, Len(appended) - LineBufMax)
                  ELSE appended
    IN  splitLines(capped, usage)

\* a variant of sniffNonStream that keeps the first TailMax bytes
sniffNonStreamHead(tailBuf, chunk) == Take(tailBuf \o chunk, TailMax)

\* a variant of sniffNonStream that on overflow keeps bytes of the new
\* chunk only
sniffNonStreamLastChunk(tailBuf, chunk) ==
    IF Len(tailBuf) + Len(chunk) > TailMax
    THEN Drop(chunk, IF Len(chunk) - TailMax < 0 THEN 0 ELSE Len(chunk) - TailMax)
    ELSE tailBuf \o chunk

\* sniffNonStream: the tail buffer after one chunk
sniffNonStream(tailBuf, chunk) ==
    IF Len(tailBuf) + Len(chunk) > TailMax
    THEN LET combined == tailBuf \o chunk
             start == IF Len(combined) - TailMax < 0 THEN 0 ELSE Len(combined) - TailMax
         IN  Drop(combined, start)
    ELSE tailBuf \o chunk

\* the index just after the brace closing the one that opens jsonPart,
\* 0 when the braces never balance (the depth loop of extractUsageFromTail)
endBrace(jsonPart) ==
    LET Opens(i) == Cardinality({j \in 1..i : jsonPart[j] = "{"})
        Closes(i) == Cardinality({j \in 1..i : jsonPart[j] = "}"})
        E == {i \in 1..Len(jsonPart) : jsonPart[i] = "}" /\ Opens(i) = Closes(i)}
    IN  IF E = {} THEN 0 ELSE Min(E)

\* the text from the first brace of segment to the brace closing it, <<>>
\* when there is no brace or the braces never balance
bracedPart(segment) ==
    LET startBrace == Index(segment, <<"{">>)
    IN  IF startBrace = 0 THEN <<>>
        ELSE Take(Drop(segment, startBrace - 1), endBrace(Drop(segment, startBrace - 1)))

\* the usage after jsonStr was decoded (parsed to r)
tailUsage(jsonStr, r, target) ==
    IF jsonStr # <<>> /\ r.ok THEN assignUsage(DecodeUsage(r.v), target) ELSE target

\* extractUsageFromTail: the value of *target after the call
extractUsageFromTail(data, target) ==
    LET idx == LastIndex(data, Txt.usageQ)
    IN  IF Len(data) = 0 THEN target
        ELSE IF idx = 0 THEN target
        ELSE tailUsage(bracedPart(Drop(data, idx - 1)),
                       Unmarshal(bracedPart(Drop(data, idx - 1))), target)

(***************************************************************************)
(* Chaos evaluator (package chaos).                                        *)
(***************************************************************************)
UpperChars == <<"A","B","C","D","E","F","G","H","I","J","K","L","M","N","O","P","Q","R","S","T","U","V","W","X","Y","Z">>

LowerChars == <<"a","b","c","d","e","f","g","h","i","j","k","l","m","n","o","p","q","r","s","t","u","v","w","x","y","z">>

\* the lower-case form of a byte string (ASCII case folding)
ToLower(s) ==
    [i \in 1..Len(s) |->
        IF \E k \in 1..26 : UpperChars[k] = s[i]
        THEN LowerChars[CHOOSE k \in 1..26 : UpperChars[k] = s[i]]
        ELSE s[i]]

\* strings.EqualFold
EqualFold(a, b) == ToLower(a) = ToLower(b)

\* a rule; Rate is in tenths (10 is 1.0)
ChaosRule(model, rate, action, delay, status, message) ==
    [Model |-> model, Rate |-> rate, Action |-> action, Delay |-> delay,
     StatusCode |-> status, Message |-> message]

NoInject ==
    [ShouldInject |-> FALSE, Action |-> "", Delay |-> 0, StatusCode |-> 0, Message |-> <<>>]

\* a variant of fires that lets a draw equal to the rate fire
firesInclusive(draw, rate) == draw <= rate

\* rand.Float64() < rule.Rate, both in tenths
fires(draw, rate) == draw < rate

RECURSIVE evalRules(_, _, _, _)
\* the loop of Evaluate from rule i on; draws[i] is the value rand.Float64
\* returns for rule i, in tenths (0..9)
evalRules(rules, modelName, draws, i) ==
    IF i > Len(rules) THEN NoInject
    ELSE LET rule == rules[i]
         IN  IF rule.Model # Txt.star /\ ~EqualFold(rule.Model, modelName)
             THEN evalRules(rules, modelName, draws, i + 1)
             ELSE IF fires(draws[i], rule.Rate)
             THEN [ShouldInject |-> TRUE,
                   Action |-> rule.Action,
                   Delay |-> rule.Delay,
                   StatusCode |-> IF rule.Action = "error" /\ rule.StatusCode = 0
                                  THEN 500 ELSE rule.StatusCode,
                   Message |-> IF rule.Action = "error" /\ rule.Message = <<>>
                               THEN Txt.chaosMessage ELSE rule.Message]
             ELSE evalRules(rules, modelName, draws, i + 1)

\* Manager.Evaluate
Evaluate(cfg, modelName, draws) ==
    IF ~cfg.Chaos.Enabled THEN NoInject
    ELSE evalRules(cfg.Chaos.Rules, modelName, draws, 1)

\* the values a random draw is sampled from, in tenths
Draws == {0, 5, 9}

Config(maskKey, enabled, rules) ==
    [MaskKey |-> maskKey, Chaos |-> [Enabled |-> enabled, Rules |-> rules]]

Configs ==
    {Config(FALSE, FALSE, <<ChaosRule(Txt.star, 10, "error", 0, 429, <<>>)>>),
     Config(TRUE, TRUE, <<ChaosRule(Txt.star, 10, "error", 0, 429, <<>>)>>),
     Config(TRUE, TRUE, <<ChaosRule(<<"m", "1">>, 5, "delay", 1, 0, <<>>),
                          ChaosRule(Txt.star, 0, "error", 0, 0, <<>>)>>)}

(***************************************************************************)
(* Recorder (package recorder).                                            *)
(***************************************************************************)
\* pb.Model after json.Unmarshal(bodyBytes, &pb), r the parse of bodyBytes;
\* <<>> when it is empty or the decoding failed
bodyModel(r) ==
    IF r.ok /\ r.v.t \in {"obj", "null"} /\ Field(r.v, Key.model, "str", <<>>).ok
    THEN Field(r.v, Key.model, "str", <<>>).x
    ELSE <<>>

\* modelName after the fallback on the URL path
pathModel(modelName, path) ==
    IF modelName = Txt.unknownModel /\ HasSuffix(path, Txt.modelsSuffix)
    THEN Txt.listModels
    ELSE modelName

\* modelName after the body was looked at (m: pb.Model)
nameOf(bodyBytes, m) ==
    IF Len(bodyBytes) > 0 /\ m # <<>> THEN m ELSE Txt.unknownModel

\* the model name PrepareLogFile derives from the body and the URL path
deriveModel(bodyBytes, path) ==
    pathModel(nameOf(bodyBytes, bodyModel(Unmarshal(bodyBytes))), path)

\* the request as PrepareLogFile dumps it: with the Authorization header
\* rewritten when maskKey is on and the header is not empty
dumpedRequest(req, maskKey) ==
    IF maskKey /\ HeaderGet(req.header, Txt.hAuth) # <<>>
    THEN [req EXCEPT !.header = HeaderSet(req.header, Txt.hAuth, Txt.fakeKey)]
    ELSE req

\* a variant of restoredRequest that leaves the masking key in the request
unrestoredRequest(req, maskKey) ==
    IF maskKey /\ HeaderGet(req.header, Txt.hAuth) # <<>>
    THEN [req EXCEPT !.header = HeaderSet(req.header, Txt.hAuth, Txt.fakeKey)]
    ELSE req

\* the request after PrepareLogFile dumped it: Header.Set with the masking
\* key, then Header.Set with the original key
restoredRequest(req, maskKey) ==
    IF maskKey /\ HeaderGet(req.header, Txt.hAuth) # <<>>
    THEN [req EXCEPT !.header = HeaderSet(dumpedRequest(req, maskKey).header, Txt.hAuth,
                                          HeaderGet(req.header, Txt.hAuth))]
    ELSE req

\* the texts the file path is made of: the output directory, the host of the
\* upstream URL and the formatted time
PathTxt ==
    [
      outputDir |-> <<"l","o","g","s">>,
      siteHost |-> <<"u","p",".","t","e","s","t">>,
      year |-> <<"2","0","2","5">>,
      month |-> <<"0","1">>,
      day |-> <<"0","2">>,
      stamp |-> <<"2","0","2","5","0","1","0","2","_","0","3","0","4","0","5">>,
      ext |-> <<".","h","t","t","p">>,
      dot |-> <<".">>,
      dotdot |-> <<".",".">>
    ]

RECURSIVE SplitPath(_)
\* the elements of a path text between its separators
SplitPath(s) ==
    IF IndexByte(s, "/") = 0 THEN <<s>>
    ELSE <<Take(s, IndexByte(s, "/") - 1)>> \o SplitPath(Drop(s, IndexByte(s, "/")))

RECURSIVE Clean(_, _)
\* filepath.Clean of a relative path, element by element: empty elements and
\* "." go, ".." takes the element before it away
Clean(out, elems) ==
    IF elems = <<>> THEN out
    ELSE IF elems[1] = <<>> \/ elems[1] = PathTxt.dot THEN Clean(out, Tail(elems))
    ELSE IF elems[1] = PathTxt.dotdot /\ out # <<>> /\ out[Len(out)] # PathTxt.dotdot
    THEN Clean(Take(out, Len(out) - 1), Tail(elems))
    ELSE Clean(Append(out, elems[1]), Tail(elems))

RECURSIVE Join(_)
\* filepath.Join: the elements of all the parts, cleaned
Join(parts) ==
    IF parts = <<>> THEN <<>>
    ELSE Clean(<<>>, SplitPath(parts[1]) \o Join(Tail(parts)))

\* the file name for the time of the call (nanos: now.Nanosecond())
fileName(nanos) == PathTxt.stamp \o <<"_">> \o Itoa(nanos) \o PathTxt.ext

\* the path of the record file, as its elements
logPath(modelName, nanos) ==
    Join(<<PathTxt.outputDir, PathTxt.siteHost, modelName,
           PathTxt.year, PathTxt.month, PathTxt.day, fileName(nanos)>>)

\* now.Nanosecond() of the time the header records
Nanosecond == 6

\* the file handle when PrepareLogFile returns after step fp failed ("none":
\* no step failed); a variant that forgets f.Close() when writing the body fails
handleLeftOpen(fp) ==
    CASE fp \in {"mkdir", "create"} -> "none"
      [] fp \in {"none", "body"} -> "open"
      [] OTHER -> "closed"

\* the file handle when PrepareLogFile returns after step fp failed
handleAfter(fp) ==
    CASE fp \in {"mkdir", "create"} -> "none"
      [] fp = "none" -> "open"
      [] OTHER -> "closed"

\* the header PrepareLogFile initialises
initialHeader(req, modelName, nHead, nBody) ==
    RecordHeader(Txt.version,
                 MetaData(Txt.requestID, Txt.time, modelName, req.url, req.method,
                          0, 0, 0, Txt.clientIP, 0, <<>>),
                 LayoutInfo(nHead, nBody, 0, 0, FALSE),
                 ZeroUsage)

\* LogInfo: File is "nil" or "f" (the handle), Path the elements of the
\* path of the file
LogInfo(file, path, header) == [File |-> file, Path |-> path, Header |-> header]

NoLogInfo == LogInfo("nil", <<>>, initialHeader([url |-> <<>>, method |-> <<>>], <<>>, 0, 0))

\* a variant of finalBlock that lets a long JSON fill the whole block
finalBlockFull(jsonData) ==
    [i \in 1..HeaderLen |->
        IF i <= Len(jsonData) THEN jsonData[i]
        ELSE IF i = HeaderLen THEN "\n"
        ELSE " "]

\* a variant of finalBlock that cuts the JSON one byte earlier
finalBlockShort(jsonData) ==
    LET kept == IF Len(jsonData) > HeaderLen - 2 THEN Take(jsonData, HeaderLen - 2) ELSE jsonData
    IN  [i \in 1..HeaderLen |->
            IF i = HeaderLen THEN "\n"
            ELSE IF i <= Len(kept) THEN kept[i]
            ELSE " "]

\* steps 2-4 of UpdateLogFile: the 2048-byte block made of the JSON
finalBlock(jsonData) ==
    LET kept == IF Len(jsonData) > HeaderLen - 1 THEN Take(jsonData, HeaderLen - 1) ELSE jsonData
    IN  [i \in 1..HeaderLen |->
            IF i = HeaderLen THEN "\n"
            ELSE IF i <= Len(kept) THEN kept[i]
            ELSE " "]

\* a variant of UpdateLogFile that writes the block to the file anew
UpdateLogFileAnew(inf, d, f, k) ==
    IF inf.File = "nil" THEN [disk |-> d, fd |-> f, err |-> "nil", wrote |-> FALSE]
    ELSE IF f # "open" THEN [disk |-> d, fd |-> f, err |-> "seek", wrote |-> FALSE]
    ELSE [disk |-> Take(finalBlock(MarshalHeader(inf.Header)), k),
          fd |-> "closed",
          err |-> IF k < HeaderLen THEN "write" ELSE "nil",
          wrote |-> k = HeaderLen]

\* UpdateLogFile(info) on a file with bytes d whose handle is in state f;
\* k is the number of bytes the Write of the block writes (HeaderLen when
\* it succeeds).  err is "nil" or the step that failed
UpdateLogFile(inf, d, f, k) ==
    IF inf.File = "nil" THEN [disk |-> d, fd |-> f, err |-> "nil", wrote |-> FALSE]
    ELSE IF f # "open" THEN [disk |-> d, fd |-> f, err |-> "seek", wrote |-> FALSE]
    ELSE [disk |-> WriteAt(d, 0, Take(finalBlock(MarshalHeader(inf.Header)), k)),
          fd |-> "closed",
          err |-> IF k < HeaderLen THEN "write" ELSE "nil",
          wrote |-> k = HeaderLen]

(***************************************************************************)
(* Replay transport (package replay) and http.ReadResponse.                *)
(***************************************************************************)
\* the letter c in upper case
Upper(c) ==
    IF \E k \in 1..26 : LowerChars[k] = c
    THEN UpperChars[CHOOSE k \in 1..26 : LowerChars[k] = c]
    ELSE c

\* textproto.CanonicalMIMEHeaderKey: the first letter and every letter
\* after a hyphen in upper case, the others in lower case
CanonicalKey(k) ==
    [i \in 1..Len(k) |->
        IF i = 1 \/ k[i - 1] = "-" THEN Upper(k[i]) ELSE ToLower(<<k[i]>>)[1]]

\* strings.TrimLeft(s, cut) for a set of bytes
TrimLeft(s, cut) ==
    LET S == {i \in 1..Len(s) : s[i] \notin cut}
    IN  IF S = {} THEN <<>> ELSE Drop(s, Min(S) - 1)

\* the index of the newline ending the line that starts at b[i], 0 when
\* the text ends first
LineEnd(b, i) ==
    IF \E j \in i..Len(b) : b[j] = "\n"
    THEN CHOOSE j \in i..Len(b) : b[j] = "\n" /\ \A k \in i..(j - 1) : b[k] # "\n"
    ELSE 0

\* the line b[i..nl] without its line ending (a newline, or a carriage
\* return and a newline)
LineAt(b, i, nl) ==
    IF nl > i /\ b[nl - 1] = "\r" THEN SubSeq(b, i, nl - 2) ELSE SubSeq(b, i, nl - 1)

BadHeader == [ok |-> FALSE, header |-> <<>>, p |-> 0]

RECURSIVE ReadMIMEHeader(_, _, _)
\* one header line "Name: value" added to the header acc, and the lines
\* after it (nl: the index of its newline)
HeaderField(b, nl, acc, line) ==
    LET c == IndexByte(line, ":")
    IN  IF c <= 1 \/ " " \in {line[j] : j \in 1..(c - 1)} THEN BadHeader
        ELSE ReadMIMEHeader(b, nl + 1,
                            HeaderSet(acc, CanonicalKey(Take(line, c - 1)),
                                      TrimSpace(Drop(line, c))))

\* textproto.Reader.ReadMIMEHeader from b[i]: the header lines up to the
\* empty line, and the index p after it
ReadMIMEHeader(b, i, acc) ==
    LET nl == LineEnd(b, i)
    IN  IF nl = 0 THEN BadHeader
        ELSE IF LineAt(b, i, nl) = <<>> THEN [ok |-> TRUE, header |-> acc, p |-> nl + 1]
        ELSE HeaderField(b, nl, acc, LineAt(b, i, nl))

\* every byte of s is a digit, and there is one
AllDigits(s) == s # <<>> /\ \A i \in 1..Len(s) : s[i] \in DigitSet

\* http.ParseHTTPVersion accepts the text
ValidProto(proto) ==
    /\ Len(proto) = 8
    /\ HasPrefix(proto, Txt.httpSlash)
    /\ proto[6] \in DigitSet /\ proto[7] = "." /\ proto[8] \in DigitSet

\* the status line "HTTP/1.1 200 OK" after it was cut at its first space
\* (sp, 0 when there is none)
StatusLine(line, sp, status) ==
    LET codeEnd == IndexByte(status, " ")
        code == IF codeEnd = 0 THEN status ELSE Take(status, codeEnd - 1)
    IN  IF sp = 0 \/ Len(code) # 3 \/ ~AllDigits(code) \/ ~ValidProto(Take(line, sp - 1))
        THEN [ok |-> FALSE]
        ELSE [ok |-> TRUE, proto |-> Take(line, sp - 1), status |-> status,
              code |-> NumVal(code, 1, 4)]

ParseStatusLine(line) ==
    StatusLine(line, IndexByte(line, " "), TrimLeft(Drop(line, IndexByte(line, " ")), {" "}))

BadResponse == [ok |-> FALSE]

\* a variant of ResponseBody that leaves out the body for every method
\* but POST
ResponseBodyPostOnly(st, header, rest, method, cl) ==
    IF cl # <<>> /\ ~AllDigits(cl) THEN BadResponse
    ELSE LET none == method # Txt.POST \/ st.code \in (100..199) \cup {204, 304}
             n == IF none THEN 0
                  ELSE IF cl = <<>> THEN Len(rest)
                  ELSE NumVal(cl, 1, Len(cl) + 1)
         IN  [ok |-> TRUE, proto |-> st.proto, status |-> st.status, code |-> st.code,
              header |-> header, body |-> Take(rest, n), bodyErr |-> Len(rest) < n]

\* the response of status line st and the given header whose body is read
\* from rest; cl is its Content-Length header.  Without one the body runs
\* to the end of the file; with one, bodyErr tells that the file ends
\* before the body does (io.ErrUnexpectedEOF on reading it)
ResponseBody(st, header, rest, method, cl) ==
    IF cl # <<>> /\ ~AllDigits(cl) THEN BadResponse
    ELSE LET none == method = Txt.HEAD \/ st.code \in (100..199) \cup {204, 304}
             n == IF none THEN 0
                  ELSE IF cl = <<>> THEN Len(rest)
                  ELSE NumVal(cl, 1, Len(cl) + 1)
         IN  [ok |-> TRUE, proto |-> st.proto, status |-> st.status, code |-> st.code,
              header |-> header, body |-> Take(rest, n), bodyErr |-> Len(rest) < n]

\* the response made of the parsed status line st and the parsed header h
ResponseOf(b, method, st, h) ==
    IF ~st.ok \/ ~h.ok THEN BadResponse
    ELSE ResponseBody(st, h.header, Drop(b, h.p - 1), method, HeaderGet(h.header, Txt.hCLen))

\* http.ReadResponse on the bytes b for a request of the given method.  A
\* Transfer-Encoding header is not modelled: the reverse proxy strips it
\* before ModifyResponse dumps the header
ReadResponse(b, method) ==
    LET nl == LineEnd(b, 1)
    IN  IF nl = 0 THEN BadResponse
        ELSE ResponseOf(b, method, ParseStatusLine(LineAt(b, 1, nl)),
                        ReadMIMEHeader(b, nl + 1, <<>>))

\* the four lengths of fileHeader.Layout made of the decoded fields f
FileLayoutOf(ok, f) ==
    [ok |-> ok /\ Decoded(f),
     ReqHeaderLen |-> f[1].x, ReqBodyLen |-> f[2].x,
     ResHeaderLen |-> f[3].x, ResBodyLen |-> f[4].x]

\* json.Unmarshal of the parse r into a fileHeader
DecodeFileHeader(r, ve, g) ==
    FileLayoutOf(r.ok /\ r.v.t \in {"obj", "null"} /\ ve.ok /\ g.ok,
                 <<Field(g.x, Key.req_header_len, "num", 0),
                   Field(g.x, Key.req_body_len, "num", 0),
                   Field(g.x, Key.res_header_len, "num", 0),
                   Field(g.x, Key.res_body_len, "num", 0)>>)

ReplayError(step) == [err |-> step, resp |-> BadResponse]

\* a variant of SeekAndRead that hands on whatever http.ReadResponse left
SeekAndReadUnchecked(file, meta, method, respOffset, resp) ==
    IF ~meta.ok THEN ReplayError("json")
    ELSE IF respOffset < 0 THEN ReplayError("seek")
    ELSE [err |-> "nil", resp |-> resp]

\* RoundTrip from step 3 on: meta is the decoded header, file the bytes
SeekAndRead(file, meta, method, respOffset, resp) ==
    IF ~meta.ok THEN ReplayError("json")
    ELSE IF respOffset < 0 THEN ReplayError("seek")
    ELSE IF ~resp.ok THEN ReplayError("response")
    ELSE [err |-> "nil", resp |-> resp]

\* a variant of ParseHeaderBlock that does not skip the delimiter
ParseHeaderBlockNoDelimiter(file, method, r) ==
    LET meta == DecodeFileHeader(r, Field(r.v, Key.version, "str", <<>>),
                                 Field(r.v, Key.layout, "obj", EmptyObj))
        respOffset == HeaderLen + meta.ReqHeaderLen + meta.ReqBodyLen
    IN  SeekAndRead(file, meta, method, respOffset,
                    ReadResponse(Drop(file, respOffset), method))

\* RoundTrip from the JSON of the header line on (parsed to r)
ParseHeaderBlock(file, method, r) ==
    LET meta == DecodeFileHeader(r, Field(r.v, Key.version, "str", <<>>),
                                 Field(r.v, Key.layout, "obj", EmptyObj))
        respOffset == HeaderLen + meta.ReqHeaderLen + meta.ReqBodyLen + 1
    IN  SeekAndRead(file, meta, method, respOffset,
                    ReadResponse(Drop(file, respOffset), method))

\* Transport.RoundTrip over a file of the given bytes (exists: the file is
\* there) for a request of the given method
RoundTrip(exists, file, method) ==
    LET idx == IndexByte(Take(file, HeaderLen), "\n")
    IN  IF ~exists THEN ReplayError("open")
        ELSE IF Len(file) < HeaderLen THEN ReplayError("header block")
        ELSE IF idx = 0 THEN ReplayError("no newline")
        ELSE ParseHeaderBlock(file, method, Unmarshal(Take(file, idx - 1)))

(***************************************************************************)
(* The state: one request served by Handler.ServeHTTP.                     *)
(***************************************************************************)
VARIABLES
    pc,         \* where ServeHTTP is
    cfg,        \* the configuration (read-only after load)
    req0,       \* the request as it arrived
    req,        \* the in-flight request
    disk,       \* the bytes of the record file
    fd,         \* the handle of the record file: "none", "open", "closed"
    off,        \* the file offset of the handle
    info,       \* the LogInfo
    irw,        \* the InstrumentedResponseWriter
    client,     \* what the client has received: status and body bytes
    up,         \* the upstream response being read and the read offset
    snf,        \* the UsageSniffer
    pending,    \* the bytes the last Read returned, not yet written to the
                \* client, with the (n, err) the upstream body returned to it
    chaosRes,   \* the result of chaosManager.Evaluate
    faults,     \* I/O failures injected so far
    env,        \* how the environment behaves in the response phase
    hist,       \* history: what has happened in this request
    replay      \* the result of a replay RoundTrip over the record file

vars ==
    <<pc, cfg, req0, req, disk, fd, off, info, irw, client, up, snf, pending,
      chaosRes, faults, env, hist, replay>>

PrimaryRequest == NewRequest(Txt.POST, Txt.chatPath, <<>>, JSONHeaders(BodyStream), BodyStream, FALSE)

PrimaryConfig == Config(FALSE, FALSE, <<ChaosRule(Txt.star, 10, "error", 0, 429, <<>>)>>)

\* The environment of the response phase.  "whole": each Read returns all
\* that fits the copy buffer and no I/O fails; "pieces": the body arrives in
\* pieces, cut at every offset; "faulty": it arrives in pieces of FaultChunk
\* bytes and reads and writes may fail.  The env request is served in
\* each environment, the others in "whole".  PrepareLogFile and
\* UpdateLogFile may fail for every request
CopyFaults == IF env = "faulty" THEN MaxFaults ELSE 0

\* "gone": as "whole", but the client may go away during the response
ClientFaults == IF env \in {"faulty", "gone"} THEN MaxFaults ELSE 0

LongRequest == NewRequest(Txt.GET, Txt.modelsPath, Rep("q", LongQuery), <<>>, <<>>, FALSE)

NoSniffer == [attached |-> FALSE, IsStream |-> FALSE, lineBuf |-> <<>>, tailBuf |-> <<>>, closed |-> FALSE]

NoWriter == [made |-> FALSE, statusCode |-> 0, bytesWritten |-> 0, ttft |-> 0, firstByte |-> FALSE]

\* NewInstrumentedResponseWriter
NewInstrumentedResponseWriter ==
    [made |-> TRUE, statusCode |-> 200, bytesWritten |-> 0, ttft |-> -1, firstByte |-> TRUE]

NoReplay == [done |-> FALSE]

Init ==
    /\ pc = "start"
    /\ cfg \in Configs
    /\ req0 \in Requests
    /\ req = req0
    /\ disk = <<>>
    /\ fd = "none"
    /\ off = 0
    /\ info = NoLogInfo
    /\ irw = NoWriter
    /\ client = [status |-> 0, body |-> <<>>]
    /\ up = [id |-> 0, pos |-> 0]
    /\ snf = NoSniffer
    /\ pending = [data |-> <<>>, after |-> "more", n |-> 0, err |-> "more"]
    /\ chaosRes = NoInject
    /\ faults = 0
    /\ env \in IF req0 = PrimaryRequest /\ cfg = PrimaryConfig
               THEN {"whole", "pieces", "faulty"}
               ELSE IF req0 = LongRequest /\ cfg = PrimaryConfig
               THEN {"whole", "gone"}
               ELSE {"whole"}
    /\ hist = [upstreamCalls |-> 0, evaluated |-> FALSE, rewrites |-> 0, updates |-> 0,
               updateErr |-> "nil", aborted |-> FALSE, proxyReturned |-> FALSE,
               fileWriteFailed |-> FALSE, clientWriteFailed |-> FALSE, fileBody |-> <<>>,
               again |-> [err |-> "nil", changed |-> FALSE]]
    /\ replay = NoReplay

\* ServeHTTP step 1: ensureStreamOptions(r)
InjectStreamOptions ==
    /\ pc = "start"
    /\ req' = ensureStreamOptions(req)
    /\ pc' = "prepare"
    /\ UNCHANGED <<cfg, req0, disk, fd, off, info, irw, client, up, snf, pending,
                   chaosRes, faults, env, hist, replay>>

\* a variant of readAllBody that takes the body as the request arrived
readAllBodyAsArrived(r) == req0.body

\* bodyBytes, _ = io.ReadAll(req.Body) in PrepareLogFile: the bytes the
\* steps before left in the request
readAllBody(r) == r.body

\* ServeHTTP step 2: PrepareLogFile and, when it fails, the 500 reply.
\* fp is the step that fails ("none": no step), k the bytes a failing write
\* wrote
PrepareLogFile ==
    /\ pc = "prepare"
    /\ \E fp \in {"none", "mkdir", "create", "pad", "dump", "head", "body"} :
      \E modelName \in {deriveModel(req.body, req.path)},
         reqDump \in {DumpRequest(dumpedRequest(req, cfg.MaskKey))} :
        LET bodyBytes == readAllBody(req)
            sizes == CASE fp = "pad" -> PartialSizes(HeaderLen)
                       [] fp = "head" -> PartialSizes(Len(reqDump))
                       [] fp = "body" -> PartialSizes(Len(bodyBytes))
                       [] OTHER -> {0}
        IN  /\ fp # "none" => faults < MaxFaults
            /\ fp = "body" => Len(bodyBytes) > 0
            /\ \E k \in sizes :
                /\ disk' = CASE fp \in {"mkdir", "create"} -> disk
                             [] fp = "pad" -> Take(Padding, k)
                             [] fp = "dump" -> Padding
                             [] fp = "head" -> Padding \o Take(reqDump, k)
                             [] fp = "body" -> Padding \o reqDump \o Take(bodyBytes, k)
                             [] OTHER -> Padding \o reqDump \o bodyBytes
                /\ fd' = handleAfter(fp)
                /\ off' = Len(disk')
                /\ req' = IF fp \in {"mkdir", "create", "pad"}
                          THEN [req EXCEPT !.bodyErr = FALSE]
                          ELSE [restoredRequest(req, cfg.MaskKey) EXCEPT !.bodyErr = FALSE]
                /\ IF fp = "none"
                   THEN /\ info' = LogInfo("f", logPath(modelName, Nanosecond),
                                           initialHeader(req, modelName, Len(reqDump), Len(bodyBytes)))
                        /\ irw' = NewInstrumentedResponseWriter
                        /\ pc' = "chaos"
                        /\ UNCHANGED <<client, faults>>
                   ELSE /\ client' = [status |-> 500, body |-> Txt.loggingError]
                        /\ faults' = faults + 1
                        /\ pc' = "done"
                        /\ UNCHANGED <<info, irw>>
    /\ UNCHANGED <<cfg, req0, up, snf, pending, chaosRes, env, hist, replay>>

\* ServeHTTP: chaosManager.Evaluate and the chaos branch.  A "delay" result
\* sleeps; whatever the result, the request goes on to the reverse proxy
ChaosEvaluate ==
    /\ pc = "chaos"
    /\ \E draws \in [1..Len(cfg.Chaos.Rules) -> Draws] :
        chaosRes' = Evaluate(cfg, info.Header.meta.model, draws)
    /\ hist' = [hist EXCEPT !.evaluated = TRUE]
    /\ pc' = "proxy"
    /\ UNCHANGED <<cfg, req0, req, disk, fd, off, info, irw, client, up, snf, pending,
                   faults, env, replay>>

\* a variant of irwWrite that takes the time at every call
irwWriteLatest(w, b, k, elapsed) ==
    [w EXCEPT !.ttft = elapsed,
              !.firstByte = FALSE,
              !.bytesWritten = w.bytesWritten + k]

\* InstrumentedResponseWriter.Write of b when the client takes k bytes,
\* elapsed milliseconds after the writer was made
irwWrite(w, b, k, elapsed) ==
    [w EXCEPT !.ttft = IF w.firstByte THEN elapsed ELSE w.ttft,
              !.firstByte = FALSE,
              !.bytesWritten = w.bytesWritten + k]

\* the milliseconds since the writer was made, at the next Write: time
\* passes while bytes go out
Elapsed == TtftMs + irw.bytesWritten

\* the upstream round trip fails: the reverse proxy calls ErrorHandler,
\* which closes the record file and answers 502
ErrorHandler ==
    /\ pc = "proxy"
    /\ fd' = IF info.File # "nil" THEN "closed" ELSE fd
    /\ irw' = irwWrite([irw EXCEPT !.statusCode = 502], Txt.proxyError, Len(Txt.proxyError), Elapsed)
    /\ client' = [status |-> 502, body |-> Txt.proxyError]
    /\ hist' = [hist EXCEPT !.upstreamCalls = hist.upstreamCalls + 1, !.proxyReturned = TRUE]
    /\ pc' = "finalize"
    /\ UNCHANGED <<cfg, req0, req, disk, off, info, up, snf, pending, chaosRes, faults, env, replay>>

\* the Stream test of ModifyResponse
isStreamResponse(resp) ==
    \/ Contains(HeaderGet(resp.header, Txt.hCType), Txt.sse)
    \/ HeaderGet(resp.header, Txt.hTE) = Txt.chunked

\* the upstream answers with response id: the reverse proxy calls
\* ModifyResponse.  d and k are the bytes the two writes to the record file
\* write (1 and the length of the dumped header when they succeed)
ModifyResponse ==
    /\ pc = "proxy"
    /\ \E id \in 1..Len(Responses) :
      \E resp \in {Responses[id]} :
        \E headerBuf \in {DumpResponseHeader(resp)}, isStream \in {isStreamResponse(resp)} :
            \E d \in {0, 1}, k \in {Len(headerBuf)} \cup PartialSizes(Len(headerBuf)) :
                LET nf == (IF d = 0 THEN 1 ELSE 0) + (IF k < Len(headerBuf) THEN 1 ELSE 0)
                IN  /\ faults + nf <= CopyFaults \/ nf = 0
                    /\ faults' = faults + nf
                    /\ disk' = WriteAt(WriteAt(disk, off, Take(<<"\n">>, d)), off + d, Take(headerBuf, k))
                    /\ off' = off + d + k
                    /\ info' = [info EXCEPT !.Header.layout.res_header_len = k,
                                            !.Header.layout.is_stream =
                                                IF isStream THEN TRUE ELSE @]
                    /\ snf' = [attached |-> TRUE, IsStream |-> isStream,
                               lineBuf |-> <<>>, tailBuf |-> <<>>, closed |-> FALSE]
                    /\ up' = [id |-> id, pos |-> 0]
                    /\ hist' = [hist EXCEPT !.upstreamCalls = hist.upstreamCalls + 1,
                                            !.fileWriteFailed = @ \/ nf > 0]
    /\ pc' = "respond"
    /\ UNCHANGED <<cfg, req0, req, fd, irw, client, pending, chaosRes, env, replay>>

\* the reverse proxy sends the status: InstrumentedResponseWriter.WriteHeader
WriteHeader ==
    /\ pc = "respond"
    /\ \E code \in {Responses[up.id].code} :
        /\ irw' = [irw EXCEPT !.statusCode = code]
        /\ client' = [client EXCEPT !.status = code]
    /\ pc' = "copy"
    /\ UNCHANGED <<cfg, req0, req, disk, fd, off, info, up, snf, pending, chaosRes,
                   faults, env, hist, replay>>

\* a variant of readResult that reports what the write to the file did
readResultOfWrite(n, err, w) == [n |-> w, err |-> IF w < n THEN "err" ELSE err]

\* what UsageSniffer.Read returns when the upstream body returned (n, err)
\* and the write to the file wrote w bytes
readResult(n, err, w) == [n |-> n, err |-> err]

\* where the copy goes after a Write that took k of n bytes (after: the err
\* of the Read before it); a variant that leaves without Body.Close when
\* the client is gone
afterWriteNoClose(k, n, after) ==
    IF k < n THEN "finalize"
    ELSE IF after = "more" THEN "copy"
    ELSE "close"

\* where the copy goes after a Write that took k of n bytes
afterWrite(k, n, after) ==
    IF k < n \/ after # "more" THEN "close" ELSE "copy"

\* a variant of snifferRead that writes stream bodies only to the file
snifferReadStreamOnly(data, w) ==
    /\ disk' = IF snf.IsStream THEN WriteAt(disk, off, Take(data, w)) ELSE disk
    /\ off' = off + w
    /\ IF snf.IsStream
       THEN \E st \in {sniffStream(snf.lineBuf, info.Header.usage, data)} :
                /\ snf' = [snf EXCEPT !.lineBuf = st.lineBuf]
                /\ info' = [info EXCEPT !.Header.usage = st.usage,
                                        !.Header.layout.res_body_len =
                                            IF w = Len(data) THEN @ + w ELSE @]
       ELSE /\ snf' = [snf EXCEPT !.tailBuf = sniffNonStream(snf.tailBuf, data)]
            /\ info' = [info EXCEPT !.Header.layout.res_body_len =
                                        IF w = Len(data) THEN @ + w ELSE @]

\* UsageSniffer.Read when the upstream body returns n > 0 bytes and the
\* write to the record file writes w of them (w < n: it returned an error)
snifferRead(data, w) ==
    /\ disk' = WriteAt(disk, off, Take(data, w))
    /\ off' = off + w
    /\ IF snf.IsStream
       THEN \E st \in {sniffStream(snf.lineBuf, info.Header.usage, data)} :
                /\ snf' = [snf EXCEPT !.lineBuf = st.lineBuf]
                /\ info' = [info EXCEPT !.Header.usage = st.usage,
                                        !.Header.layout.res_body_len =
                                            IF w = Len(data) THEN @ + w ELSE @]
       ELSE /\ snf' = [snf EXCEPT !.tailBuf = sniffNonStream(snf.tailBuf, data)]
            /\ info' = [info EXCEPT !.Header.layout.res_body_len =
                                        IF w = Len(data) THEN @ + w ELSE @]

\* one Read of the copy loop through the sniffer.  The upstream body
\* returns (n, nil), (n, io.EOF) or (n, error)
Read ==
    /\ pc = "copy"
    /\ \E body \in {Responses[up.id].body} :
       LET rem == Len(body) - up.pos
       IN  \/ /\ rem > 0
              /\ \E n \in ReadSizes(up.pos, rem, env, Len(body)), after \in {"more", "eof", "err"} :
                    LET data == SubSeq(body, up.pos + 1, up.pos + n)
                    IN  /\ after = "eof" => n = rem
                        /\ \E w \in {n} \cup PartialSizes(n) :
                            LET nf == (IF after = "err" THEN 1 ELSE 0) + (IF w < n THEN 1 ELSE 0)
                            IN  /\ faults + nf <= CopyFaults \/ nf = 0
                                /\ faults' = faults + nf
                                /\ snifferRead(data, w)
                                /\ hist' = [hist EXCEPT !.fileWriteFailed = @ \/ w < n,
                                                        !.fileBody = @ \o Take(data, w)]
                            /\ \E res \in {readResult(n, after, w)} :
                                pending' = [data |-> Take(data, res.n), after |-> res.err,
                                            n |-> n, err |-> after]
                        /\ up' = [up EXCEPT !.pos = up.pos + n]
                        /\ pc' = "write"
              /\ UNCHANGED <<cfg, req0, req, fd, irw, client, chaosRes, env, replay>>
           \/ /\ rem = 0
              /\ pc' = "close"
              /\ UNCHANGED <<cfg, req0, req, disk, fd, off, info, irw, client, up, snf,
                             pending, chaosRes, faults, env, hist, replay>>
           \/ /\ faults < CopyFaults
              /\ faults' = faults + 1
              /\ hist' = [hist EXCEPT !.aborted = TRUE]
              /\ pc' = "close"
              /\ UNCHANGED <<cfg, req0, req, disk, fd, off, info, irw, client, up, snf,
                             pending, chaosRes, env, replay>>

\* the copy loop writes the bytes just read to the client:
\* InstrumentedResponseWriter.Write.  k < n: the client is gone
Write ==
    /\ pc = "write"
    /\ LET n == Len(pending.data)
       IN  \E k \in {n} \cup PartialSizes(n) :
            /\ k < n => faults < ClientFaults
            /\ faults' = IF k < n THEN faults + 1 ELSE faults
            /\ irw' = irwWrite(irw, pending.data, k, Elapsed)
            /\ client' = [client EXCEPT !.body = @ \o Take(pending.data, k)]
            /\ pc' = afterWrite(k, n, pending.after)
            /\ hist' = [hist EXCEPT !.aborted = @ \/ k < n \/ pending.after = "err",
                                    !.clientWriteFailed = @ \/ k < n]
    /\ pending' = [pending EXCEPT !.data = <<>>, !.n = 0]
    /\ UNCHANGED <<cfg, req0, req, disk, fd, off, info, up, snf, chaosRes, env, replay>>

\* the reverse proxy closes the response body (at the end of the copy, or
\* on its way out after a failed copy): UsageSniffer.Close
Close ==
    /\ pc = "close"
    /\ info' = IF ~snf.IsStream /\ info.Header.usage.total_tokens = 0
               THEN [info EXCEPT !.Header.usage = extractUsageFromTail(snf.tailBuf, @)]
               ELSE info
    /\ snf' = [snf EXCEPT !.closed = TRUE]
    /\ hist' = [hist EXCEPT !.proxyReturned = TRUE]
    /\ pc' = "finalize"
    /\ UNCHANGED <<cfg, req0, req, disk, fd, off, irw, client, up, pending, chaosRes,
                   faults, env, replay>>

\* the header with the metrics of the response writer, as the deferred
\* function of ServeHTTP fills it
withMetrics(inf, w) ==
    [inf EXCEPT !.Header.meta.duration_ms = DurationMs,
                !.Header.meta.status_code = w.statusCode,
                !.Header.meta.content_length = w.bytesWritten,
                !.Header.meta.ttft_ms = w.ttft]

\* the deferred function of ServeHTTP: the metrics, then UpdateLogFile
Finalize ==
    /\ pc = "finalize"
    /\ \E k \in {HeaderLen} \cup PartialSizes(HeaderLen) :
      \E r \in {UpdateLogFile(withMetrics(info, irw), disk, fd, k)} :
            /\ k < HeaderLen => faults < MaxFaults /\ fd = "open"
            /\ faults' = IF k < HeaderLen THEN faults + 1 ELSE faults
            /\ info' = withMetrics(info, irw)
            /\ disk' = r.disk
            /\ fd' = r.fd
            /\ off' = IF r.err = "seek" THEN off ELSE k
            /\ hist' = [hist EXCEPT !.updates = @ + 1,
                                    !.updateErr = r.err,
                                    !.rewrites = IF r.wrote THEN @ + 1 ELSE @]
    /\ pc' = "done"
    /\ UNCHANGED <<cfg, req0, req, irw, client, up, snf, pending, chaosRes, env, replay>>

\* UpdateLogFile called once more on the same LogInfo
UpdateLogFileAgain ==
    /\ pc = "done"
    /\ hist.updates = 1
    /\ \E r \in {UpdateLogFile(info, disk, fd, HeaderLen)} :
           /\ disk' = r.disk
           /\ fd' = r.fd
           /\ hist' = [hist EXCEPT !.updates = @ + 1,
                                   !.again = [err |-> r.err, changed |-> r.disk # disk],
                                   !.rewrites = IF r.wrote THEN @ + 1 ELSE @]
    /\ UNCHANGED <<pc, cfg, req0, req, off, info, irw, client, up, snf, pending,
                   chaosRes, faults, env, replay>>

\* a replay of the record file once the request is over: RoundTrip of the
\* replay Transport for a request of some method
Replay ==
    /\ pc = "done"
    /\ ~replay.done
    /\ \E method \in {Txt.POST, Txt.GET, Txt.HEAD} :
        replay' = [done |-> TRUE, method |-> method,
                   res |-> RoundTrip(fd # "none", disk, method)]
    /\ UNCHANGED <<pc, cfg, req0, req, disk, fd, off, info, irw, client, up, snf, pending,
                   chaosRes, faults, env, hist>>

Next ==
    \/ InjectStreamOptions
    \/ PrepareLogFile
    \/ ChaosEvaluate
    \/ ErrorHandler
    \/ ModifyResponse
    \/ WriteHeader
    \/ Read
    \/ Write
    \/ Close
    \/ Finalize
    \/ UpdateLogFileAgain
    \/ Replay

Spec == Init /\ [][Next]_vars

(***************************************************************************)
(* Concurrent requests: each ServeHTTP runs in a goroutine of its own and  *)
(* the Recorder holds no lock.  Here the variables of a request (pc, req,  *)
(* info, fd, off) hold one value per request, disk holds the files by path *)
(* and hist.clock is the reading of time.Now().  A file is kept as the     *)
(* sequence of the blocks written to it (the slot, the request, the        *)
(* response, the back-patched header), each with the request that wrote it.*)
(***************************************************************************)
\* the requests in flight
NumRequests == 2

\* the readings the clock goes through
MaxClock == 2

ConcurrentRequests ==
    {NewRequest(Txt.POST, Txt.chatPath, <<>>, JSONHeaders(b), b, FALSE) : b \in {BodyStream, BodyPlain}}
    \cup {NewRequest(Txt.GET, Txt.modelsPath, <<>>, <<>>, <<>>, FALSE)}

Block(i, part) == [by |-> i, part |-> part]

\* os.Create: the file at path exists and is empty (O_TRUNC)
created(files, path) ==
    [p \in DOMAIN files \cup {path} |-> IF p = path THEN <<>> ELSE files[p]]

\* File.Write of blocks at offset o of the file at path; a write past the
\* end leaves a hole
written(files, path, o, blocks) ==
    [files EXCEPT ![path] =
        Take(@, o) \o [k \in 1..(o - MinOf(o, Len(@))) |-> Block(0, "hole")]
                   \o blocks \o Drop(@, o + Len(blocks))]

InitFiles ==
    /\ pc = [i \in 1..NumRequests |-> "prepare"]
    /\ cfg = PrimaryConfig
    /\ req0 \in [1..NumRequests -> ConcurrentRequests]
    /\ req = req0
    /\ disk = <<>>
    /\ fd = [i \in 1..NumRequests |-> "none"]
    /\ off = [i \in 1..NumRequests |-> 0]
    /\ info = [i \in 1..NumRequests |-> NoLogInfo]
    /\ irw = NoWriter
    /\ client = [status |-> 0, body |-> <<>>]
    /\ up = [id |-> 0, pos |-> 0]
    /\ snf = NoSniffer
    /\ pending = [data |-> <<>>, after |-> "more", n |-> 0, err |-> "more"]
    /\ chaosRes = NoInject
    /\ faults = 0
    /\ env = "whole"
    /\ hist = [clock |-> 0]
    /\ replay = NoReplay

\* time passes
Tick ==
    /\ hist.clock < MaxClock
    /\ hist' = [clock |-> hist.clock + 1]
    /\ UNCHANGED <<pc, cfg, req0, req, disk, fd, off, info, irw, client, up, snf,
                   pending, chaosRes, faults, env, replay>>

\* PrepareLogFile of request i up to os.Create: the model name, time.Now(),
\* the path, the file created
CreateFile(i) ==
    /\ pc[i] = "prepare"
    /\ \E modelName \in {deriveModel(req[i].body, req[i].path)} :
       \E path \in {logPath(modelName, hist.clock)} :
        /\ disk' = created(disk, path)
        /\ info' = [info EXCEPT ![i] = LogInfo("f", path, initialHeader(req[i], modelName, 0, 0))]
    /\ fd' = [fd EXCEPT ![i] = "open"]
    /\ off' = [off EXCEPT ![i] = 0]
    /\ pc' = [pc EXCEPT ![i] = "write"]
    /\ UNCHANGED <<cfg, req0, req, irw, client, up, snf, pending, chaosRes, faults,
                   env, hist, replay>>

\* PrepareLogFile of request i from the padding on: the slot, the request
\* dump and the body, written through the handle of the request
WriteRequest(i) ==
    /\ pc[i] = "write"
    /\ disk' = written(disk, info[i].Path, off[i], <<Block(i, "slot"), Block(i, "request")>>)
    /\ off' = [off EXCEPT ![i] = @ + 2]
    /\ pc' = [pc EXCEPT ![i] = "respond"]
    /\ UNCHANGED <<cfg, req0, req, fd, info, irw, client, up, snf, pending, chaosRes,
                   faults, env, hist, replay>>

\* ModifyResponse and the copy of request i: the response, appended
WriteResponse(i) ==
    /\ pc[i] = "respond"
    /\ disk' = written(disk, info[i].Path, off[i], <<Block(i, "response")>>)
    /\ off' = [off EXCEPT ![i] = @ + 1]
    /\ pc' = [pc EXCEPT ![i] = "finalize"]
    /\ UNCHANGED <<cfg, req0, req, fd, info, irw, client, up, snf, pending, chaosRes,
                   faults, env, hist, replay>>

\* UpdateLogFile of request i: Seek(0, 0), the header block, Close
BackPatch(i) ==
    /\ pc[i] = "finalize"
    /\ disk' = written(disk, info[i].Path, 0, <<Block(i, "header")>>)
    /\ off' = [off EXCEPT ![i] = 1]
    /\ fd' = [fd EXCEPT ![i] = "closed"]
    /\ pc' = [pc EXCEPT ![i] = "done"]
    /\ UNCHANGED <<cfg, req0, req, info, irw, client, up, snf, pending, chaosRes,
                   faults, env, hist, replay>>

NextFiles ==
    \/ Tick
    \/ \E i \in 1..NumRequests :
        \/ CreateFile(i)
        \/ WriteRequest(i)
        \/ WriteResponse(i)
        \/ BackPatch(i)

SpecFiles == InitFiles /\ [][NextFiles]_vars

(***************************************************************************)
(* Manager.Evaluate on its own: one call for a configuration, a model name *)
(* and the values the random source returns.                               *)
(***************************************************************************)
ChaosConfigs ==
    {Config(FALSE, FALSE, <<ChaosRule(Txt.star, 10, "error", 0, 429, <<>>)>>),
     Config(FALSE, TRUE, <<>>),
     Config(FALSE, TRUE, <<ChaosRule(Txt.star, 10, "error", 0, 0, <<>>)>>),
     Config(FALSE, TRUE, <<ChaosRule(<<"M", "1">>, 5, "delay", 1, 0, <<>>),
                           ChaosRule(Txt.star, 0, "error", 0, 0, <<>>),
                           ChaosRule(Txt.star, 10, "error", 0, 418, <<"t","e","a","p","o","t">>)>>),
     Config(FALSE, TRUE, <<ChaosRule(Txt.star, 15, "delay", 2, 0, <<>>),
                           ChaosRule(Txt.star, 10, "error", 0, 429, <<>>)>>),
     Config(FALSE, TRUE, <<ChaosRule(<<"g", "p", "t">>, 10, "error", 0, 429, <<>>),
                           ChaosRule(<<"m", "2">>, 0 - 5, "error", 0, 503, <<>>),
                           ChaosRule(<<"m", "2">>, 5, "error", 0, 0, <<>>)>>)}

ChaosModels == {<<"m", "1">>, <<"M", "2">>, Txt.unknownModel}

InitChaos ==
    /\ pc = "chaos"
    /\ cfg \in ChaosConfigs
    /\ req0 = PrimaryRequest
    /\ req = req0
    /\ chaosRes = NoInject
    /\ hist = [evaluated |-> FALSE, draws |-> <<>>]
    /\ disk = <<>>
    /\ fd = "none"
    /\ off = 0
    /\ info \in {[NoLogInfo EXCEPT !.Header.meta.model = m] : m \in ChaosModels}
    /\ irw = NoWriter
    /\ client = [status |-> 0, body |-> <<>>]
    /\ up = [id |-> 0, pos |-> 0]
    /\ snf = NoSniffer
    /\ pending = [data |-> <<>>, after |-> "more", n |-> 0, err |-> "more"]
    /\ faults = 0
    /\ env = "whole"
    /\ replay = NoReplay

\* chaosManager.Evaluate(logInfo.Header.Meta.Model); hist.draws keeps the
\* values the random source returned
EvaluateOnce ==
    /\ pc = "chaos"
    /\ \E draws \in [1..Len(cfg.Chaos.Rules) -> Draws] :
        /\ chaosRes' = Evaluate(cfg, info.Header.meta.model, draws)
        /\ hist' = [evaluated |-> TRUE, draws |-> draws]
    /\ pc' = "evaluated"
    /\ UNCHANGED <<cfg, req0, req, disk, fd, off, info, irw, client, up, snf, pending,
                   faults, env, replay>>

NextChaos == EvaluateOnce

SpecChaos == InitChaos /\ [][NextChaos]_vars

(***************************************************************************)
(* ensureStreamOptions on its own: the function applied to a request, and  *)
(* applied again to what it left behind.                                   *)
(***************************************************************************)
\* request bodies for the injector
BodyStreamFalse == <<"{","\"","s","t","r","e","a","m","\"",":","f","a","l","s","e","}">>

BodyOptsFalse == <<"{","\"","s","t","r","e","a","m","\"",":","t","r","u","e",",","\"","s","t","r","e","a","m","_","o","p","t","i","o","n","s","\"",":","{","\"","i","n","c","l","u","d","e","_","u","s","a","g","e","\"",":","f","a","l","s","e","}","}">>

BodyOptsOther == <<"{","\"","s","t","r","e","a","m","\"",":","t","r","u","e",",","\"","s","t","r","e","a","m","_","o","p","t","i","o","n","s","\"",":","{","\"","x","\"",":","1","}","}">>

BodyOptsNull == <<"{","\"","s","t","r","e","a","m","\"",":","t","r","u","e",",","\"","s","t","r","e","a","m","_","o","p","t","i","o","n","s","\"",":","n","u","l","l","}">>

BodyOptsText == <<"{","\"","s","t","r","e","a","m","\"",":","t","r","u","e",",","\"","s","t","r","e","a","m","_","o","p","t","i","o","n","s","\"",":","{","\"","i","n","c","l","u","d","e","_","u","s","a","g","e","\"",":","\"","y","e","s","\"","}","}">>

BodyStreamText == <<"{","\"","s","t","r","e","a","m","\"",":","\"","t","r","u","e","\"","}">>

BodyArray == <<"[","{","\"","s","t","r","e","a","m","\"",":","t","r","u","e","}","]">>

BodyNull == <<"n","u","l","l">>

BodySpaced == <<"{"," ","\"","z","\""," ",":"," ","[","1",","," ","2","]",","," ","\"","s","t","r","e","a","m","\""," ",":"," ","t","r","u","e"," ","}">>

BodyStreamTwice == <<"{","\"","s","t","r","e","a","m","\"",":","t","r","u","e",",","\"","s","t","r","e","a","m","\"",":","f","a","l","s","e","}">>

BodyTrailing == <<"{","\"","s","t","r","e","a","m","\"",":","t","r","u","e","}","x">>

ContentTypeCharset == Txt.json \o <<";"," ","c","h","a","r","s","e","t","=","u","t","f","-","8">>

ContentTypeText == <<"t","e","x","t","/","p","l","a","i","n">>

InjectBodies ==
    {BodyStream, BodyStreamOpts, BodyPlain, BodyNotJSON, <<>>, BodyStreamFalse,
     BodyOptsFalse, BodyOptsOther, BodyOptsNull, BodyOptsText, BodyStreamText,
     BodyArray, BodyNull, BodySpaced, BodyStreamTwice, BodyTrailing}

\* the headers of a request with the content type ct (<<>>: none)
InjectHeaders(ct, body) ==
    IF ct = <<>> THEN <<Member(Txt.hCLen, Itoa(Len(body)))>>
    ELSE <<Member(Txt.hCLen, Itoa(Len(body))), Member(Txt.hCType, ct)>>

\* the requests: every method, content type and body, and for some bodies a
\* read that fails after the first 9 bytes
InjectRequests ==
    {NewRequest(m, Txt.chatPath, <<>>, InjectHeaders(ct, b), b, FALSE) :
        m \in {Txt.POST, Txt.GET},
        ct \in {Txt.json, ContentTypeCharset, ContentTypeText, <<>>},
        b \in InjectBodies}
    \cup {NewRequest(m, Txt.chatPath, <<>>, InjectHeaders(Txt.json, b), Take(b, 9), TRUE) :
        m \in {Txt.POST, Txt.GET}, b \in {BodyStream, BodyOptsFalse}}

\* how often the function is applied to one request
MaxApply == 2

\* the variables of ServeHTTP at rest
Idle ==
    /\ disk = <<>>
    /\ fd = "none"
    /\ off = 0
    /\ info = NoLogInfo
    /\ irw = NoWriter
    /\ client = [status |-> 0, body |-> <<>>]
    /\ up = [id |-> 0, pos |-> 0]
    /\ snf = NoSniffer
    /\ pending = [data |-> <<>>, after |-> "more", n |-> 0, err |-> "more"]
    /\ faults = 0
    /\ env = "whole"
    /\ replay = NoReplay

InitInject ==
    /\ pc = "inject"
    /\ cfg = PrimaryConfig
    /\ req0 \in InjectRequests
    /\ req = req0
    /\ chaosRes = NoInject
    /\ hist = [applied |-> 0, once |-> req0]
    /\ Idle

\* ensureStreamOptions(req); hist.once keeps what the first call left behind
ApplyInject ==
    /\ pc = "inject"
    /\ hist.applied < MaxApply
    /\ req' = ensureStreamOptions(req)
    /\ hist' = [applied |-> hist.applied + 1,
                once |-> IF hist.applied = 0 THEN req' ELSE hist.once]
    /\ UNCHANGED <<pc, cfg, req0, disk, fd, off, info, irw, client, up, snf, pending,
                   chaosRes, faults, env, replay>>

NextInject == ApplyInject

SpecInject == InitInject /\ [][NextInject]_vars

(***************************************************************************)
(* Transport.RoundTrip on its own: one round trip over a record file that  *)
(* may be missing or damaged.  hist tells how the file was put together.   *)
(***************************************************************************)
\* the request region of the files: the dumped head and the body
ReplayRequest == DumpRequest(PrimaryRequest) \o BodyStream

\* the header line for a request region of reqHead and reqBody bytes
HeaderLineJSON(reqHead, reqBody) ==
    <<"{","\"","v","e","r","s","i","o","n","\"",":","\"","L","L","M","_","P","R","O","X","Y","_","V","2","\"",",","\"","l","a","y","o","u","t","\"",":","{","\"","r","e","q","_","h","e","a","d","e","r","_","l","e","n","\"",":">> \o reqHead \o <<",","\"","r","e","q","_","b","o","d","y","_","l","e","n","\"",":">> \o reqBody \o <<",","\"","r","e","s","_","h","e","a","d","e","r","_","l","e","n","\"",":","0",",","\"","r","e","s","_","b","o","d","y","_","l","e","n","\"",":","0","}","}">>

\* the first 2048 bytes of the file by kind ("short": a header line that
\* was never padded, so that the whole file is shorter than the block)
ReplaySlot(kind) ==
    CASE kind = "valid" ->
            finalBlock(HeaderLineJSON(Itoa(Len(DumpRequest(PrimaryRequest))), Itoa(Len(BodyStream))))
      [] kind = "padding" -> Padding
      [] kind = "no newline" -> Rep(" ", HeaderLen)
      [] kind = "newline first" -> <<"\n">> \o Rep(" ", HeaderLen - 1)
      [] kind = "short" -> HeaderLineJSON(<<"0">>, <<"0">>) \o <<"\n">>
      [] kind = "negative" -> finalBlock(HeaderLineJSON(<<"-","5","0","0","0">>, <<"0">>))
      [] kind = "array" -> finalBlock(<<"[","1","]">>)
      [] kind = "cut" -> finalBlock(Take(HeaderLineJSON(<<"0">>, <<"0">>), 30))
      [] kind = "text length" -> finalBlock(HeaderLineJSON(<<"\"","7","\"">>, <<"0">>))
      [] kind = "null" -> finalBlock(<<"n","u","l","l">>)
      [] kind = "no layout" -> finalBlock(<<"{","}">>)
      [] kind = "long" -> finalBlock(HeaderLineJSON(<<"9","0","0","0">>, <<"7","0","0">>))
      [] kind = "response length" ->
            finalBlock(<<"{","\"","l","a","y","o","u","t","\"",":","{","\"","r","e","s","_","h","e","a","d","e","r","_","l","e","n","\"",":","-","3","0","0","0","}","}">>)

SlotKinds ==
    {"valid", "padding", "no newline", "newline first", "short", "negative", "array",
     "cut", "text length", "null", "no layout"}

\* the slots whose line does not decode into a fileHeader
BadJSONSlots == {"padding", "newline first", "array", "cut", "text length"}

RecordedResponse == DumpResponseHeader(Responses[1]) \o RespBodyJSON

\* the bytes after the header block, by kind
ReplayRegion(kind) ==
    CASE kind = "good" -> ReplayRequest \o <<"\n">> \o RecordedResponse
      [] kind = "no request" -> <<"\n">> \o RecordedResponse
      [] kind = "short body" ->
            ReplayRequest \o <<"\n">> \o DumpResponseHeader(Responses[1]) \o Take(RespBodyJSON, 9)
      [] kind = "empty" -> <<>>
      [] kind = "request only" -> ReplayRequest \o <<"\n">>
      [] kind = "ends at body" -> ReplayRequest
      [] kind = "status" ->
            ReplayRequest \o <<"\n">> \o <<"H","T","T","P","1",".","1"," ","2","0","0"," ","O","K">> \o Txt.crlf \o Txt.crlf
      [] kind = "code" ->
            ReplayRequest \o <<"\n">> \o <<"H","T","T","P","/","1",".","1"," ","2","x","0"," ","O","K">> \o Txt.crlf \o Txt.crlf
      [] kind = "header line" ->
            ReplayRequest \o <<"\n">> \o Txt.http11 \o <<" ">> \o Txt.ok200 \o Txt.crlf
            \o <<"n","o"," ","c","o","l","o","n"," ","h","e","r","e">> \o Txt.crlf \o Txt.crlf
      [] kind = "open header" ->
            ReplayRequest \o <<"\n">> \o Txt.http11 \o <<" ">> \o Txt.ok200 \o Txt.crlf
            \o HeaderLine(Txt.hCType, Txt.json)
      [] kind = "length" ->
            ReplayRequest \o <<"\n">> \o Txt.http11 \o <<" ">> \o Txt.ok200 \o Txt.crlf
            \o HeaderLine(Txt.hCLen, <<"1","x">>) \o Txt.crlf

RegionKinds ==
    {"good", "no request", "short body", "empty", "request only", "status", "code",
     "header line", "open header", "length"}

\* the regions that hold a well-formed response head after the request
\* region the "valid" slot describes, and after an empty request region
GoodAfterRequest == {"good", "short body"}

GoodAtOnce == {"no request"}

InitReplay ==
    /\ pc = "done"
    /\ cfg = PrimaryConfig
    /\ req0 = PrimaryRequest
    /\ req = req0
    /\ chaosRes = NoInject
    /\ \E slot \in SlotKinds, region \in RegionKinds :
        /\ hist = [slot |-> slot, region |-> region]
        /\ disk = ReplaySlot(slot) \o ReplayRegion(region)
    /\ fd \in {"none", "closed"}
    /\ off = 0
    /\ info = NoLogInfo
    /\ irw = NoWriter
    /\ client = [status |-> 0, body |-> <<>>]
    /\ up = [id |-> 0, pos |-> 0]
    /\ snf = NoSniffer
    /\ pending = [data |-> <<>>, after |-> "more", n |-> 0, err |-> "more"]
    /\ faults = 0
    /\ env = "whole"
    /\ replay = NoReplay

NextReplay == Replay

SpecReplay == InitReplay /\ [][NextReplay]_vars

(***************************************************************************)
(* The UsageSniffer on its own: a response body is fed to sniffStream or   *)
(* sniffNonStream in pieces of any of the given sizes, and the sniffer is  *)
(* closed, at the end of the body or before.  hist.body is the body,       *)
(* hist.fed the number of its bytes fed so far.                            *)
(***************************************************************************)
\* the lengths of the long lines of the long event streams, and the size
\* of a piece of theirs (besides CopyBufLen)
LongLine == 40000

NextLine == 30000

OverLine == 80000

HugePiece == 20000

\* n bytes of filler that differ from place to place
Filler(n) == [i \in 1..n |-> DigitChars[(i % 10) + 1]]

\* event-stream lines that carry no usage the sniffer may take: a total of
\* the wrong type, JSON that does not parse, a line without the data:
\* prefix, totals of zero and below, a usage that is no object, the [DONE]
\* line, and a last line that never ends
SSERejected ==
    <<"d","a","t","a",":"," ","{","\"","u","s","a","g","e","\"",":","{","\"","t","o","t","a","l","_","t","o","k","e","n","s","\"",":","\"","7","\"","}","}","\n","\n","d","a","t","a",":"," ","{","\"","u","s","a","g","e","\"",":","{","\"","t","o","t","a","l","_","t","o","k","e","n","s","\"",":","7","}","\n","\n","{","\"","u","s","a","g","e","\"",":","{","\"","t","o","t","a","l","_","t","o","k","e","n","s","\"",":","5","}","}","\n","\n","e","v","e","n","t",":"," ","{","\"","u","s","a","g","e","\"",":","{","\"","t","o","t","a","l","_","t","o","k","e","n","s","\"",":","6","}","}","\n","\n","d","a","t","a",":"," ","{","\"","u","s","a","g","e","\"",":","{","\"","t","o","t","a","l","_","t","o","k","e","n","s","\"",":","0","}","}","\n","\n","d","a","t","a",":"," ","{","\"","u","s","a","g","e","\"",":","{","\"","t","o","t","a","l","_","t","o","k","e","n","s","\"",":","-","3","}","}","\n","\n","d","a","t","a",":"," ","{","\"","u","s","a","g","e","\"",":","[","4","]","}","\n","\n","d","a","t","a",":"," ","[","D","O","N","E","]","\n","\n","d","a","t","a",":"," ","{","\"","u","s","a","g","e","\"",":","{","\"","t","o","t","a","l","_","t","o","k","e","n","s","\"",":","8","}","}">>

\* a usage with all its members, then lines to pass over, then a later
\* usage with the total only
SSESuperseded ==
    <<"d","a","t","a",":"," ","{","\"","u","s","a","g","e","\"",":","{","\"","p","r","o","m","p","t","_","t","o","k","e","n","s","\"",":","3",",","\"","c","o","m","p","l","e","t","i","o","n","_","t","o","k","e","n","s","\"",":","4",",","\"","t","o","t","a","l","_","t","o","k","e","n","s","\"",":","7",",","\"","p","r","o","m","p","t","_","t","o","k","e","n","s","_","d","e","t","a","i","l","s","\"",":","{","\"","c","a","c","h","e","d","_","t","o","k","e","n","s","\"",":","2","}","}","}","\n","\n","d","a","t","a",":"," ","{","\"","u","s","a","g","e","\"",":","{","\"","t","o","t","a","l","_","t","o","k","e","n","s","\"",":","0","}","}","\n","\n","d","a","t","a",":"," ","{","\"","u","s","a","g","e","\"",":","{","\"","t","o","t","a","l","_","t","o","k","e","n","s","\"",":","\n","\n","d","a","t","a",":"," ","{","\"","u","s","a","g","e","\"",":","{","\"","t","o","t","a","l","_","t","o","k","e","n","s","\"",":","9","}","}","\n","\n","d","a","t","a",":"," ","{","\"","u","s","a","g","e","\"",":","n","u","l","l","}","\n","\n","d","a","t","a",":"," ","[","D","O","N","E","]","\n","\n">>

JSONZeroTotal == <<"{","\"","i","d","\"",":","\"","c","2","\"",",","\"","u","s","a","g","e","\"",":","{","\"","t","o","t","a","l","_","t","o","k","e","n","s","\"",":","0","}","}">>

JSONCutUsage == <<"{","\"","i","d","\"",":","\"","c","3","\"",",","\"","u","s","a","g","e","\"",":","{","\"","t","o","t","a","l","_","t","o","k","e","n","s","\"",":","4">>

\* a data line of more than CopyBufLen bytes that carries a usage, then a
\* second long data line
SSELongLines ==
    <<"d","a","t","a",":"," ","{","\"","c","\"",":","\"">> \o Filler(LongLine) \o <<"\"",",","\"","u","s","a","g","e","\"",":","{","\"","t","o","t","a","l","_","t","o","k","e","n","s","\"",":","9","}","}","\n","\n">>
    \o <<"d","a","t","a",":"," ","{","\"","c","\"",":","\"">> \o Filler(NextLine) \o <<"\"","}","\n","\n","d","a","t","a",":"," ","[","D","O","N","E","]","\n","\n">>

\* a data line longer than the line buffer, then a usage
SSEOverflow ==
    <<"d","a","t","a",":"," ","{","\"","c","\"",":","\"">> \o Filler(OverLine) \o <<"\"","}","\n","\n">>
    \o <<"d","a","t","a",":"," ","{","\"","u","s","a","g","e","\"",":","{","\"","t","o","t","a","l","_","t","o","k","e","n","s","\"",":","1","1","}","}","\n","\n">>

SmallPieces == (1..MaxChunk) \cup {CopyBufLen}

MidPieces == {BigChunk, TailMax, CopyBufLen}

HugePieces == {HugePiece, CopyBufLen}

\* a body for the sniffer: the mode, the bytes, the sizes of the pieces it
\* is fed in, and the usage objects with a positive total it holds
SniffBody(stream, text, pieces, carried) ==
    [stream |-> stream, text |-> text, pieces |-> pieces, carried |-> carried]

SniffBodies ==
    <<SniffBody(TRUE, RespBodySSE, SmallPieces,
                {UsageInfo(0, 0, 9, <<>>), UsageInfo(5, 0, 14, <<>>)}),
      SniffBody(TRUE, SSERejected, SmallPieces, {}),
      SniffBody(TRUE, SSESuperseded, SmallPieces,
                {UsageInfo(3, 4, 7, <<2>>), UsageInfo(0, 0, 9, <<>>)}),
      SniffBody(TRUE, SSELongLines, HugePieces, {UsageInfo(0, 0, 9, <<>>)}),
      SniffBody(TRUE, SSEOverflow, HugePieces, {UsageInfo(0, 0, 11, <<>>)}),
      SniffBody(FALSE, RespBodyJSON, SmallPieces, {UsageInfo(5, 7, 12, <<>>)}),
      SniffBody(FALSE, RespBodyError, SmallPieces, {}),
      SniffBody(FALSE, JSONZeroTotal, SmallPieces, {}),
      SniffBody(FALSE, JSONCutUsage, SmallPieces, {}),
      SniffBody(FALSE, RespBodyUsageLast, MidPieces, {UsageInfo(0, 0, 33, <<>>)}),
      SniffBody(FALSE, RespBodyUsageFirst, MidPieces, {UsageInfo(0, 0, 21, <<>>)}),
      SniffBody(FALSE, SSELongLines, HugePieces, {UsageInfo(0, 0, 9, <<>>)})>>

InitSniff ==
    /\ pc = "sniff"
    /\ cfg = PrimaryConfig
    /\ req0 = PrimaryRequest
    /\ req = req0
    /\ chaosRes = NoInject
    /\ \E b \in 1..Len(SniffBodies) :
        /\ hist = [body |-> b, fed |-> 0]
        /\ snf = [NoSniffer EXCEPT !.attached = TRUE, !.IsStream = SniffBodies[b].stream]
    /\ info = NoLogInfo
    /\ disk = <<>>
    /\ fd = "none"
    /\ off = 0
    /\ irw = NoWriter
    /\ client = [status |-> 0, body |-> <<>>]
    /\ up = [id |-> 0, pos |-> 0]
    /\ pending = [data |-> <<>>, after |-> "more", n |-> 0, err |-> "more"]
    /\ faults = 0
    /\ env = "whole"
    /\ replay = NoReplay

\* the sniffing of UsageSniffer.Read for the n > 0 bytes Source.Read
\* returned (File is nil)
Feed ==
    /\ pc = "sniff"
    /\ hist.fed < Len(SniffBodies[hist.body].text)
    /\ \E n \in SniffBodies[hist.body].pieces :
        \E data \in {SubSeq(SniffBodies[hist.body].text, hist.fed + 1,
                            MinOf(hist.fed + n, Len(SniffBodies[hist.body].text)))} :
            /\ IF snf.IsStream
               THEN \E st \in {sniffStream(snf.lineBuf, info.Header.usage, data)} :
                        /\ snf' = [snf EXCEPT !.lineBuf = st.lineBuf]
                        /\ info' = [info EXCEPT !.Header.usage = st.usage]
               ELSE /\ snf' = [snf EXCEPT !.tailBuf = sniffNonStream(snf.tailBuf, data)]
                    /\ info' = info
            /\ hist' = [hist EXCEPT !.fed = @ + Len(data)]
    /\ UNCHANGED <<pc, cfg, req0, req, disk, fd, off, irw, client, up, pending, chaosRes,
                   faults, env, replay>>

\* UsageSniffer.Close
CloseSniffer ==
    /\ pc = "sniff"
    /\ info' = IF ~snf.IsStream /\ info.Header.usage.total_tokens = 0
               THEN [info EXCEPT !.Header.usage = extractUsageFromTail(snf.tailBuf, @)]
               ELSE info
    /\ snf' = [snf EXCEPT !.closed = TRUE]
    /\ pc' = "closed"
    /\ UNCHANGED <<cfg, req0, req, disk, fd, off, irw, client, up, pending, chaosRes,
                   faults, env, hist, replay>>

NextSniff == Feed \/ CloseSniffer

SpecSniff == InitSniff /\ [][NextSniff]_vars

(***************************************************************************)
(* The replay Transport as its callers use it: round trips of several      *)
(* requests over one record file, and the closing of the bodies of the     *)
(* responses.  replay is the sequence of the round trips made, each with   *)
(* the request, the result, the state of the handle it opened and whether  *)
(* the caller closed the body.                                             *)
(***************************************************************************)
MaxTrips == 2

TransportRequests ==
    {PrimaryRequest,
     NewRequest(Txt.GET, Txt.modelsPath, <<"q">>, <<>>, <<>>, FALSE),
     NewRequest(Txt.HEAD, Txt.chatPath, <<>>, <<Member(Txt.hAuth, Txt.clientKey)>>, <<>>, FALSE)}

TransportSlots == {"valid", "padding", "negative", "null"}

TransportRegions == {"good", "short body", "no request", "status"}

\* a variant of replayHandle in which a response that does not parse
\* leaves the handle open
replayHandleLeaked(err) ==
    IF err = "open" THEN "none"
    ELSE IF err \in {"nil", "response"} THEN "open"
    ELSE "closed"

\* the handle RoundTrip opened, when it returns: none when os.Open failed,
\* closed by f.Close() on every other error return, open with a response
replayHandle(err) ==
    IF err = "open" THEN "none"
    ELSE IF err = "nil" THEN "open"
    ELSE "closed"

\* fileCloser.Close: the body reader is closed, then the file
fileCloserClose(trip) == [trip EXCEPT !.handle = "closed", !.bodyClosed = TRUE]

InitTransport ==
    /\ pc = "transport"
    /\ cfg = PrimaryConfig
    /\ req0 = PrimaryRequest
    /\ req = req0
    /\ chaosRes = NoInject
    /\ \E slot \in TransportSlots, region \in TransportRegions :
        /\ hist = [slot |-> slot, region |-> region]
        /\ disk = ReplaySlot(slot) \o ReplayRegion(region)
    /\ fd \in {"none", "closed"}
    /\ off = 0
    /\ info = NoLogInfo
    /\ irw = NoWriter
    /\ client = [status |-> 0, body |-> <<>>]
    /\ up = [id |-> 0, pos |-> 0]
    /\ snf = NoSniffer
    /\ pending = [data |-> <<>>, after |-> "more", n |-> 0, err |-> "more"]
    /\ faults = 0
    /\ env = "whole"
    /\ replay = <<>>

\* Transport.RoundTrip for one more request (fd tells whether the file is
\* there: "none" when it is missing)
TransportRoundTrip ==
    /\ pc = "transport"
    /\ Len(replay) < MaxTrips
    /\ \E r \in TransportRequests :
        \E res \in {RoundTrip(fd # "none", disk, r.method)} :
            replay' = Append(replay, [req |-> r, res |-> res,
                                      handle |-> replayHandle(res.err),
                                      bodyClosed |-> FALSE])
    /\ UNCHANGED <<pc, cfg, req0, req, disk, fd, off, info, irw, client, up, snf, pending,
                   chaosRes, faults, env, hist>>

\* the caller closes the body of a response it was given
CloseResponseBody ==
    /\ pc = "transport"
    /\ \E i \in 1..Len(replay) :
        /\ replay[i].res.err = "nil"
        /\ ~replay[i].bodyClosed
        /\ replay' = [replay EXCEPT ![i] = fileCloserClose(@)]
    /\ UNCHANGED <<pc, cfg, req0, req, disk, fd, off, info, irw, client, up, snf, pending,
                   chaosRes, faults, env, hist>>

NextTransport == TransportRoundTrip \/ CloseResponseBody

SpecTransport == InitTransport /\ [][NextTransport]_vars

(***************************************************************************)
(* The detail page of the monitor (package monitor): DetailHandler reads   *)
(* a record file whole and ParseLogFile cuts it up by the lengths of its   *)
(* header line.  client is what the handler answers; client.parsed is what *)
(* ParseLogFile returned, or the place where it panicked.                  *)
(***************************************************************************)
DetailSlots ==
    {"valid", "padding", "no newline", "short", "negative", "cut", "null", "no layout",
     "long", "response length"}

DetailRegions == RegionKinds \cup {"ends at body"}

\* content[lo:hi] of a content of n bytes is evaluated without a panic
\* (0 <= lo <= hi <= n; ParseLogFile never slices past len(content))
InBounds(lo, hi, n) == 0 <= lo /\ lo <= hi /\ hi <= n

Panicked(at) == [outcome |-> "panic", at |-> at]

ParseFailed(step) == [outcome |-> "error", at |-> step]

\* reqEndOffset of ParseLogFile: the end of the request region, at most
\* len(content)
reqEnd(l, n) ==
    IF HeaderLen + l.req_header_len + l.req_body_len > n
    THEN n
    ELSE HeaderLen + l.req_header_len + l.req_body_len

\* ParseLogFile from step 2 on, in the order the slices are evaluated:
\* the request body, the response body, ReqFull, ResFull
sliceContent(content, header, n, reqBodyStart, reqEndOffset, resStartOffset, resBodyStart) ==
    IF ~InBounds(reqBodyStart, reqEndOffset, n) THEN Panicked("request body")
    ELSE IF resStartOffset < n /\ resBodyStart < n /\ ~InBounds(resBodyStart, n, n)
    THEN Panicked("response body")
    ELSE IF ~InBounds(0, reqEndOffset, n) THEN Panicked("request")
    ELSE IF ~InBounds(resStartOffset, n, n) THEN Panicked("response")
    ELSE [outcome |-> "parsed", at |-> "end",
          Header |-> header,
          ReqFull |-> Take(content, reqEndOffset),
          ResFull |-> Drop(content, resStartOffset),
          reqBodyBytes |-> SubSeq(content, reqBodyStart + 1, reqEndOffset),
          resBodyBytes |-> IF resStartOffset < n /\ resBodyStart < n
                           THEN Drop(content, resBodyStart)
                           ELSE <<>>]

\* the offsets of ParseLogFile for a decoded header
parseOffsets(content, header) ==
    LET l == header.layout
        n == Len(content)
        e == reqEnd(l, n)
    IN  sliceContent(content, header, n, HeaderLen + l.req_header_len, e, e + 1,
                     e + 1 + l.res_header_len)

\* ParseLogFile(content).  Of the ParsedData the model keeps the header,
\* ReqFull, ResFull and the two body regions that the chat messages and
\* the AI content are decoded from
ParseLogFile(content) ==
    LET idx == IndexByte(content, "\n")
        h == UnmarshalHeader(Take(content, idx))
    IN  IF idx = 0 THEN ParseFailed("header line")
        ELSE IF ~h.ok THEN ParseFailed("json")
        ELSE parseOffsets(content, h.h)

InitDetail ==
    /\ pc = "detail"
    /\ cfg = PrimaryConfig
    /\ req0 = PrimaryRequest
    /\ req = req0
    /\ chaosRes = NoInject
    /\ \E slot \in DetailSlots, region \in DetailRegions :
        /\ hist = [slot |-> slot, region |-> region]
        /\ disk = ReplaySlot(slot) \o ReplayRegion(region)
    /\ fd \in {"none", "closed"}
    /\ off = 0
    /\ info = NoLogInfo
    /\ irw = NoWriter
    /\ client = [status |-> 0, parsed |-> ParseFailed("none")]
    /\ up = [id |-> 0, pos |-> 0]
    /\ snf = NoSniffer
    /\ pending = [data |-> <<>>, after |-> "more", n |-> 0, err |-> "more"]
    /\ faults = 0
    /\ env = "whole"
    /\ replay = NoReplay

\* DetailHandler for the path of the file (fd "none": the file is
\* missing).  A panic of ParseLogFile ends the handler with no answer
\* written (status 0)
DetailHandler ==
    /\ pc = "detail"
    /\ IF fd = "none"
       THEN client' = [status |-> 404, parsed |-> ParseFailed("read")]
       ELSE \E parsed \in {ParseLogFile(disk)} :
                client' = [status |-> CASE parsed.outcome = "parsed" -> 200
                                        [] parsed.outcome = "error" -> 500
                                        [] OTHER -> 0,
                           parsed |-> parsed]
    /\ pc' = "answered"
    /\ UNCHANGED <<cfg, req0, req, disk, fd, off, info, irw, up, snf, pending,
                   chaosRes, faults, env, hist, replay>>

NextDetail == DetailHandler

SpecDetail == InitDetail /\ [][NextDetail]_vars

(***************************************************************************)
(* The list page of the monitor (package monitor): ScanLogs walks the      *)
(* output directory while requests are being recorded.  The variables of a *)
(* request hold one value per request, disk holds the bytes of the files   *)
(* by path, up the response each request is given and client the scan:     *)
(* the paths still to visit, the files visited, the entries decoded and,   *)
(* once the scan is over, the ListData.                                    *)
(***************************************************************************)
\* the requests in flight while the monitor scans
ScannedRequests == 2

\* the readings the clock goes through while the files are created
ScanClock == 1

\* the list shows at most 500 entries
ListCap == 500

\* the requests recorded: the first is a chat request, the others are chat
\* requests of the same model or requests for the list of models
ScanInputs ==
    {NewRequest(Txt.POST, Txt.chatPath, <<>>, JSONHeaders(BodyStream), BodyStream, FALSE),
     NewRequest(Txt.GET, Txt.modelsPath, <<>>, <<>>, <<>>, FALSE)}

\* the upstream responses the requests are given: 200 with a usage, 503
ScanResponses == {1, 3}

\* a byte of a hole in a file
Nul == "\\0"

\* File.Write of data at offset o of a file f; a write past the end
\* leaves a hole
WritePast(f, o, data) == WriteAt(f \o Rep(Nul, o - MinOf(o, Len(f))), o, data)

\* a < b for two paths, element by element
PathLess(a, b) ==
    LET D == {i \in 1..MinOf(Len(a), Len(b)) : a[i] # b[i]}
    IN  IF D = {} THEN Len(a) < Len(b)
        ELSE Less(a[Min(D)], b[Min(D)])

RECURSIVE walkOrder(_)
\* filepath.Walk: the paths in lexical order
walkOrder(paths) ==
    IF paths = {} THEN <<>>
    ELSE LET first == CHOOSE x \in paths : \A y \in paths \ {x} : PathLess(x, y)
         IN  <<first>> \o walkOrder(paths \ {first})

RECURSIVE SumSeq(_)
SumSeq(s) == IF s = <<>> THEN 0 ELSE Head(s) + SumSeq(Tail(s))

\* line, _ := r.ReadString('\n'): the first line with its newline, the
\* whole file when it has none
firstLine(file) ==
    LET idx == IndexByte(file, "\n")
    IN  IF idx = 0 THEN file ELSE Take(file, idx)

\* a variant of scanHeader that takes a blank line for an empty header
scanHeaderBlank(line) ==
    IF TrimSpace(line) = <<>> THEN UnmarshalHeader(<<"{", "}">>)
    ELSE UnmarshalHeader(line)

\* json.Unmarshal([]byte(line), &header) of ScanLogs
scanHeader(line) == UnmarshalHeader(line)

LogEntry(header, path) == [Header |-> header, LogPath |-> path]

isSuccess(e) == e.Header.meta.status_code > 199 /\ e.Header.meta.status_code < 300

isFailed(e) == ~isSuccess(e)

\* the statistics loop of ScanLogs; SuccessRate is kept as the fraction
\* success / (success + failed), 0 / 1 when nothing was counted
logStats(entries, ok, success, failed) ==
    LET totalToken == SumSeq([k \in 1..success |-> ok[k].Header.usage.total_tokens])
        totalTTFT == SumSeq([k \in 1..success |-> ok[k].Header.meta.ttft_ms])
    IN  [TotalRequest |-> Len(entries),
         SuccessRequest |-> success,
         FailedRequest |-> failed,
         SuccessRate |-> IF success + failed > 0 THEN <<success, success + failed>>
                         ELSE <<0, 1>>,
         AvgTTFT |-> IF totalTTFT > 0 /\ success > 0 THEN totalTTFT \div success ELSE 0,
         TotalTokens |-> totalToken]

\* Meta.Time of a is after that of b (the texts are RFC 3339 in UTC)
timeAfter(a, b) == Less(b.Header.meta.time, a.Header.meta.time)

\* sort.Slice by time, the latest first: the orders it may leave (the sort
\* is not stable)
sortedLogs(entries) ==
    {s \in {[k \in 1..Len(entries) |-> entries[q[k]]] : q \in Permutations(1..Len(entries))} :
        \A a, b \in 1..Len(s) : a < b => ~timeAfter(s[b], s[a])}

NoScan == [phase |-> "idle", todo |-> <<>>, visited |-> <<>>, entries |-> <<>>]

InitMonitor ==
    /\ pc = [i \in 1..ScannedRequests |-> "prepare"]
    /\ cfg = PrimaryConfig
    /\ req0 \in {f \in [1..ScannedRequests -> ScanInputs] : f[1].method = Txt.POST}
    /\ req = req0
    /\ disk = <<>>
    /\ fd = [i \in 1..ScannedRequests |-> "none"]
    /\ off = [i \in 1..ScannedRequests |-> 0]
    /\ info = [i \in 1..ScannedRequests |-> NoLogInfo]
    /\ irw = NoWriter
    /\ client = NoScan
    /\ up = [i \in 1..ScannedRequests |-> 0]
    /\ snf = NoSniffer
    /\ pending = [data |-> <<>>, after |-> "more", n |-> 0, err |-> "more"]
    /\ chaosRes = NoInject
    /\ faults = 0
    /\ env = "whole"
    /\ hist = [clock |-> 0]
    /\ replay = NoReplay

\* PrepareLogFile of request i up to os.Create: the model name, time.Now()
\* (the clock may have moved on since it was last read), the path, the
\* file created empty
CreateRecord(i) ==
    /\ pc[i] = "prepare"
    /\ \E now \in {hist.clock, MinOf(hist.clock + 1, ScanClock)} :
       \E modelName \in {deriveModel(req[i].body, req[i].path)} :
       \E path \in {logPath(modelName, now)} :
        /\ hist' = [clock |-> now]
        /\ disk' = created(disk, path)
        /\ info' = [info EXCEPT ![i] = LogInfo("f", path, initialHeader(req[i], modelName, 0, 0))]
    /\ fd' = [fd EXCEPT ![i] = "open"]
    /\ off' = [off EXCEPT ![i] = 0]
    /\ pc' = [pc EXCEPT ![i] = "pad"]
    /\ UNCHANGED <<cfg, req0, req, irw, client, up, snf, pending, chaosRes, faults,
                   env, replay>>

\* PrepareLogFile of request i: the padding of the header slot
WritePadding(i) ==
    /\ pc[i] = "pad"
    /\ disk' = [disk EXCEPT ![info[i].Path] = WritePast(@, off[i], Padding)]
    /\ off' = [off EXCEPT ![i] = @ + HeaderLen]
    /\ pc' = [pc EXCEPT ![i] = "dump"]
    /\ UNCHANGED <<cfg, req0, req, fd, info, irw, client, up, snf, pending, chaosRes,
                   faults, env, hist, replay>>

\* PrepareLogFile of request i: the request dump and the body, and the
\* header initialised
WriteDump(i) ==
    /\ pc[i] = "dump"
    /\ \E reqDump \in {DumpRequest(dumpedRequest(req[i], cfg.MaskKey))} :
        /\ disk' = [disk EXCEPT ![info[i].Path] = WritePast(@, off[i], reqDump \o req[i].body)]
        /\ off' = [off EXCEPT ![i] = @ + Len(reqDump) + Len(req[i].body)]
        /\ info' = [info EXCEPT ![i].Header.layout.req_header_len = Len(reqDump),
                                ![i].Header.layout.req_body_len = Len(req[i].body)]
    /\ pc' = [pc EXCEPT ![i] = "proxy"]
    /\ UNCHANGED <<cfg, req0, req, fd, irw, client, up, snf, pending, chaosRes,
                   faults, env, hist, replay>>

\* the response of request i: ModifyResponse writes the separator and the
\* response head, the sniffer the body, and Close reads the usage
RecordResponse(i) ==
    /\ pc[i] = "proxy"
    /\ \E id \in ScanResponses :
       \E resp \in {Responses[id]} :
       \E headerBuf \in {DumpResponseHeader(resp)} :
        /\ disk' = [disk EXCEPT ![info[i].Path] =
                        WritePast(@, off[i], <<"\n">> \o headerBuf \o resp.body)]
        /\ off' = [off EXCEPT ![i] = @ + 1 + Len(headerBuf) + Len(resp.body)]
        /\ info' = [info EXCEPT ![i].Header.layout.res_header_len = Len(headerBuf),
                                ![i].Header.layout.is_stream =
                                    IF isStreamResponse(resp) THEN TRUE ELSE @,
                                ![i].Header.usage =
                                    extractUsageFromTail(sniffNonStream(<<>>, resp.body), @)]
        /\ up' = [up EXCEPT ![i] = id]
    /\ pc' = [pc EXCEPT ![i] = "finalize"]
    /\ UNCHANGED <<cfg, req0, req, fd, irw, client, snf, pending, chaosRes,
                   faults, env, hist, replay>>

\* the response writer of request i when the response has been sent
writerOf(resp) ==
    [NewInstrumentedResponseWriter EXCEPT !.statusCode = resp.code,
                                          !.bytesWritten = Len(resp.body),
                                          !.ttft = TtftMs,
                                          !.firstByte = FALSE]

\* the deferred function of ServeHTTP for request i: the metrics, then
\* UpdateLogFile.  A reader may see the Write of the block half done:
\* k bytes of it are in the file first (k one byte short of the JSON, or
\* the JSON whole), the rest after the next step
StartUpdate(i) ==
    /\ pc[i] = "finalize"
    /\ \E final \in {withMetrics(info[i], writerOf(Responses[up[i]]))} :
       \E jsonData \in {MarshalHeader(final.Header)} :
       \E k \in {Len(jsonData) - 1, Len(jsonData), HeaderLen} :
        /\ info' = [info EXCEPT ![i] = final]
        /\ disk' = [disk EXCEPT ![final.Path] = WritePast(@, 0, Take(finalBlock(jsonData), k))]
        /\ off' = [off EXCEPT ![i] = k]
        /\ fd' = [fd EXCEPT ![i] = IF k = HeaderLen THEN "closed" ELSE @]
        /\ pc' = [pc EXCEPT ![i] = IF k = HeaderLen THEN "done" ELSE "patching"]
    /\ UNCHANGED <<cfg, req0, req, irw, client, up, snf, pending, chaosRes,
                   faults, env, hist, replay>>

\* the rest of the block of request i, and Close
FinishUpdate(i) ==
    /\ pc[i] = "patching"
    /\ \E block \in {finalBlock(MarshalHeader(info[i].Header))} :
        disk' = [disk EXCEPT ![info[i].Path] = WritePast(@, off[i], Drop(block, off[i]))]
    /\ off' = [off EXCEPT ![i] = HeaderLen]
    /\ fd' = [fd EXCEPT ![i] = "closed"]
    /\ pc' = [pc EXCEPT ![i] = "done"]
    /\ UNCHANGED <<cfg, req0, req, info, irw, client, up, snf, pending, chaosRes,
                   faults, env, hist, replay>>

\* ScanLogs: filepath.Walk lists the files of the output directory
StartScan ==
    /\ client.phase = "idle"
    /\ client' = [client EXCEPT !.phase = "walk", !.todo = walkOrder(DOMAIN disk)]
    /\ UNCHANGED <<pc, cfg, req0, req, disk, fd, off, info, irw, up, snf, pending,
                   chaosRes, faults, env, hist, replay>>

\* ScanLogs: the callback of Walk for the next file.  Every file of the
\* model ends in .http; the first line is read and decoded, and the file
\* is listed when it decodes.  visited records what the slot looked like
ScanFile ==
    /\ client.phase = "walk"
    /\ client.todo # <<>>
    /\ \E path \in {Head(client.todo)} :
       \E line \in {firstLine(disk[path])} :
       \E header \in {scanHeader(line)} :
        client' = [client EXCEPT
                      !.todo = Tail(@),
                      !.visited = Append(@, [path |-> path,
                                             padding |-> Take(disk[path], HeaderLen) = Padding,
                                             blank |-> TrimSpace(line) = <<>>,
                                             listed |-> header.ok]),
                      !.entries = IF header.ok THEN Append(@, LogEntry(header.h, path)) ELSE @]
    /\ UNCHANGED <<pc, cfg, req0, req, disk, fd, off, info, irw, up, snf, pending,
                   chaosRes, faults, env, hist, replay>>

\* ScanLogs after the walk: the statistics, the sort, the cap
FinishScan ==
    /\ client.phase = "walk"
    /\ client.todo = <<>>
    /\ \E ok \in {SelectSeq(client.entries, isSuccess)},
          bad \in {SelectSeq(client.entries, isFailed)} :
       \E logs \in sortedLogs(client.entries) :
        client' = [phase |-> "listed", todo |-> <<>>, visited |-> client.visited,
                   entries |-> client.entries,
                   Logs |-> Take(logs, ListCap),
                   Stats |-> logStats(client.entries, ok, Len(ok), Len(bad))]
    /\ UNCHANGED <<pc, cfg, req0, req, disk, fd, off, info, irw, up, snf, pending,
                   chaosRes, faults, env, hist, replay>>

NextMonitor ==
    \/ \E i \in 1..ScannedRequests :
        \/ CreateRecord(i)
        \/ WritePadding(i)
        \/ WriteDump(i)
        \/ RecordResponse(i)
        \/ StartUpdate(i)
        \/ FinishUpdate(i)
    \/ StartScan
    \/ ScanFile
    \/ FinishScan

SpecMonitor == InitMonitor /\ [][NextMonitor]_vars


(***************************************************************************)
(* Properties.                                                             *)
(***************************************************************************)
\* the header slot of the record file, its first line, and the header that
\* line decodes to
Slot == Take(disk, HeaderLen)

FirstLine == Take(disk, IndexByte(disk, "\n") - 1)

StoredHeader == UnmarshalHeader(FirstLine)

\* the request is over and the upstream round trip had failed
UpstreamFailed == pc = "done" /\ hist.upstreamCalls = 1 /\ up.id = 0

\* the request is over and the upstream had answered
UpstreamAnswered == pc = "done" /\ up.id > 0

\* C2: when the upstream round trip fails (and no file operation is made to
\* fail), the client receives 502 and the header slot of the record file
\* holds the serialized header with the captured status 502.
C2_UpstreamFailureRecorded ==
    UpstreamFailed /\ faults = 0 =>
        /\ client.status = 502
        /\ info.Header.meta.status_code = 502
        /\ Slot = finalBlock(MarshalHeader(info.Header))

\* C3: when the chaos rule that fires has the action "error" with status S,
\* the request is answered locally with S, the upstream is never called and
\* the header records meta.status_code = S.
C3_ChaosErrorAnsweredLocally ==
    pc = "done" /\ chaosRes.ShouldInject /\ chaosRes.Action = "error" =>
        /\ hist.upstreamCalls = 0
        /\ client.status = chaosRes.StatusCode
        /\ info.Header.meta.status_code = chaosRes.StatusCode

\* C7: for a request whose PrepareLogFile succeeded (and with no file
\* operation made to fail afterwards), the header slot is rewritten exactly
\* once, after the proxy returned and the sniffer was closed.
C7_SlotRewrittenOnce ==
    pc = "done" /\ info.File # "nil" /\ faults = 0 =>
        /\ hist.rewrites = 1
        /\ hist.proxyReturned

\* C9: a second UpdateLogFile on the same LogInfo leaves every byte of the
\* file unchanged and reports no error.
C9_SecondUpdateIsNoOp ==
    hist.updates = 2 => ~hist.again.changed /\ hist.again.err = "nil"

\* the header was back-patched: the one rewrite of the slot succeeded
Rewritten == pc = "done" /\ hist.rewrites = 1

\* the serialized header fits the slot
HeaderFits == Len(MarshalHeader(info.Header)) <= HeaderLen - 1

\* the file length that the layout l accounts for
LayoutLength(l) ==
    HeaderLen + l.req_header_len + l.req_body_len + 1 + l.res_header_len + l.res_body_len

\* C1: once the header was back-patched (and fits the slot), the length of
\* the file is 2048 + req_header_len + req_body_len + 1 + res_header_len +
\* res_body_len for the layout read from the header at the head of the file.
C1_FileLength ==
    Rewritten /\ HeaderFits =>
        /\ StoredHeader.ok
        /\ Len(disk) = LayoutLength(StoredHeader.h.layout)

\* the total_tokens (0 when there is none) that the parse r of a JSON text
\* carries in its member usage
CarriedTotal(r) ==
    IF r.ok /\ ObjGet(r.v, Key.usage).has
            /\ ObjGet(ObjGet(r.v, Key.usage).v, Key.total_tokens).has
            /\ ObjGet(ObjGet(r.v, Key.usage).v, Key.total_tokens).v.t = "num"
    THEN ObjGet(ObjGet(r.v, Key.usage).v, Key.total_tokens).v.n
    ELSE 0

\* the total_tokens an SSE line carries: that of the JSON after "data:"
LineTotal(line) ==
    IF HasPrefix(line, Txt.data)
    THEN CarriedTotal(Unmarshal(TrimSpace(Drop(line, Len(Txt.data)))))
    ELSE 0

\* the line of b that the newline at index nl ends
LineBefore(b, nl) ==
    LET prev == {j \in 1..(nl - 1) : b[j] = "\n"}
    IN  SubSeq(b, (IF prev = {} THEN 0 ELSE Max(prev)) + 1, nl - 1)

\* the newlines of b that end a line carrying a positive total_tokens
UsageLines(b) == {nl \in 1..Len(b) : b[nl] = "\n" /\ LineTotal(LineBefore(b, nl)) > 0}

\* the bytes of the response body the sniffer has been given
Seen == Take(Responses[up.id].body, up.pos)

BodyTotals == [i \in 1..Len(Responses) |-> CarriedTotal(Unmarshal(Responses[i].body))]

\* the non-stream response body was read to its end
BodyRead == UpstreamAnswered /\ ~snf.IsStream /\ up.pos = Len(Responses[up.id].body)

UsageInTail(body) ==
    /\ Cardinality(Occurrences(body, Txt.usageQ)) = 1
    /\ Index(body, Txt.usageQ) > Len(body) - TailMax

\* the responses whose body has its usage member in the tail
TailResponses == {i \in 1..Len(Responses) : UsageInTail(Responses[i].body)}

ResBodyStart ==
    HeaderLen + info.Header.layout.req_header_len + info.Header.layout.req_body_len
    + 1 + info.Header.layout.res_header_len

Recorded ==
    UpstreamAnswered /\ ~hist.aborted /\ ~hist.fileWriteFailed /\ hist.rewrites = 1

\* the replay returned the recorded status and headers, and the bytes
\* written to the record file as the body
ReplayedAsRecorded ==
    /\ replay.res.err = "nil"
    /\ replay.res.resp.code = Responses[up.id].code
    /\ replay.res.resp.status = Responses[up.id].status
    /\ replay.res.resp.header = Responses[up.id].header
    /\ replay.res.resp.body = hist.fileBody
    /\ ~replay.res.resp.bodyErr

C10_HeaderRoundTrip ==
    Rewritten =>
        \E jsonData \in {MarshalHeader(info.Header)} :
            /\ Len(jsonData) <= HeaderLen - 1 =>
                    StoredHeader = [ok |-> TRUE, h |-> info.Header]
            /\ Len(jsonData) = HeaderLen - 1 => Slot = jsonData \o <<"\n">>

C10_Witness ==
    /\ Rewritten
    /\ Len(MarshalHeader(info.Header)) = HeaderLen - 1
    /\ StoredHeader.ok

\* the indices of the newlines among the first HeaderLen bytes of the file
SlotNewlines == {i \in 1..MinOf(Len(disk), HeaderLen) : disk[i] = "\n"}

\* C11: once the padding slot is written, the first 2048 bytes of the record
\* file hold exactly one newline, as their last byte: for the initial slot,
\* after the back-patch, and for a serialized header of more than 2047 bytes,
\* of which the first 2047 bytes are kept.
C11_OneNewlineInSlot ==
    Len(disk) >= HeaderLen =>
        /\ SlotNewlines = {HeaderLen}
        /\ Rewritten =>
                Take(disk, HeaderLen - 1) = Take(finalBlock(MarshalHeader(info.Header)), HeaderLen - 1)
        /\ Rewritten /\ ~HeaderFits =>
                Take(disk, HeaderLen - 1) = Take(MarshalHeader(info.Header), HeaderLen - 1)

C11_Witness ==
    /\ Rewritten /\ ~HeaderFits
    /\ SlotNewlines = {HeaderLen}

\* the offset of the delimiter between the request and the response
DelimiterAt == HeaderLen + info.Header.layout.req_header_len + info.Header.layout.req_body_len

\* C12: in a record file whose header was back-patched, the byte at offset
\* 2048 + req_header_len + req_body_len is the newline delimiter and the
\* dumped status line of the response starts at the next byte.
C12_DelimiterInPlace ==
    Rewritten =>
        /\ Len(disk) > DelimiterAt
        /\ disk[DelimiterAt + 1] = "\n"
        /\ StartsWithAt(disk, DelimiterAt + 2, Txt.http11)

\* C17: when reading the body of the incoming request fails, the client
\* receives 500, the request is not forwarded to the upstream and the header
\* of no record file is back-patched for it.
C17_BodyReadFailureRejected ==
    pc = "done" /\ req0.bodyErr =>
        /\ client.status = 500
        /\ hist.upstreamCalls = 0
        /\ hist.rewrites = 0

\* PrepareLogFile returned an error and ServeHTTP is over
PrepareFailed == pc = "done" /\ info.File = "nil"

\* C16: when PrepareLogFile returns an error the client receives 500, the
\* request is not forwarded to the upstream, the chaos evaluator is not
\* consulted and the file handle PrepareLogFile opened, if any, is closed.
C16_PrepareFailureAnswered ==
    PrepareFailed =>
        /\ client = [status |-> 500, body |-> Txt.loggingError]
        /\ hist.upstreamCalls = 0
        /\ ~hist.evaluated
        /\ chaosRes = NoInject
        /\ fd # "open"

C16_Witness == PrepareFailed /\ fd = "closed" /\ client.status = 500

\* the Authorization header of the request as it came in
OriginalKey == HeaderGet(req0.header, Txt.hAuth)

\* the bytes of the request dump in the file (after a failed PrepareLogFile:
\* what the file holds after the slot)
DumpOnDisk ==
    IF info.File = "nil" THEN Drop(disk, MinOf(Len(disk), HeaderLen))
    ELSE SubSeq(disk, HeaderLen + 1, HeaderLen + info.Header.layout.req_header_len)

\* C18: with mask_key on and a non-empty Authorization header, the request
\* dump in the record file carries "Authorization: Bearer fake-key-logging"
\* and never the original key, and once PrepareLogFile has returned, with
\* success or with an error, the Authorization header of the request in
\* flight is the one it had before.
C18_KeyMaskedAndRestored ==
    cfg.MaskKey /\ OriginalKey # <<>> /\ pc \notin {"start", "prepare"} =>
        /\ HeaderGet(req.header, Txt.hAuth) = OriginalKey
        /\ ~Contains(DumpOnDisk, OriginalKey)
        /\ info.File # "nil" => Contains(DumpOnDisk, HeaderLine(Txt.hAuth, Txt.fakeKey))

C18_Witness ==
    /\ cfg.MaskKey /\ OriginalKey # <<>> /\ OriginalKey # Txt.fakeKey
    /\ info.File # "nil"
    /\ Contains(DumpOnDisk, HeaderLine(Txt.hAuth, Txt.fakeKey))
    /\ HeaderGet(req.header, Txt.hAuth) = OriginalKey

\* the member "model" of a body that is a JSON object, when it is a string
ModelMember(body) ==
    LET r == Unmarshal(body)
    IN  IF r.ok /\ ObjGet(r.v, Key.model).has /\ ObjGet(r.v, Key.model).v.t = "str"
        THEN ObjGet(r.v, Key.model).v.s
        ELSE <<>>

\* the name the claim derives for a body and a URL path
DerivedName(body, path) ==
    IF ModelMember(body) # <<>> THEN ModelMember(body)
    ELSE IF HasSuffix(path, Txt.modelsSuffix) THEN Txt.listModels
    ELSE Txt.unknownModel

\* C19: the model name is the member "model" of the request body when it is
\* present and not empty, else list_models when the URL path ends with
\* /models, else unknown-model; it is meta.model of the header and the
\* element of the file path after the output directory and the site host,
\* followed by the year, the month, the day and the file name.
C19_ModelNameDerived ==
    info.File # "nil" =>
        /\ info.Header.meta.model = DerivedName(req.body, req.path)
        /\ Len(info.Path) = 7
        /\ info.Path[3] = DerivedName(req.body, req.path)

\* the Content-Length header of a request
ContentLengthHeader(r) == HeaderGet(r.header, Txt.hCLen)

\* C13: ensureStreamOptions is idempotent: applied a second time it leaves
\* the body, ContentLength and the Content-Length header as the first
\* application left them, whatever the method, content type and body.
C13_InjectIdempotent ==
    hist.applied = MaxApply =>
        /\ req.body = hist.once.body
        /\ req.ContentLength = hist.once.ContentLength
        /\ ContentLengthHeader(req) = ContentLengthHeader(hist.once)

C13_Witness ==
    /\ hist.applied = MaxApply
    /\ hist.once.body # req0.body
    /\ hist.once.body # <<>>
    /\ req.body = hist.once.body
    /\ ContentLengthHeader(req) = ContentLengthHeader(hist.once)

\* the member k of the JSON object the text is, as ObjGet gives it
MemberOf(text, k) ==
    LET r == Unmarshal(text)
    IN  IF r.ok THEN ObjGet(r.v, k) ELSE [has |-> FALSE, v |-> JNull]

\* include_usage of stream_options is true in the body
IncludesUsage(text) ==
    /\ MemberOf(text, Key.stream_options).has
    /\ ObjGet(MemberOf(text, Key.stream_options).v, Key.include_usage) = [has |-> TRUE, v |-> JBool(TRUE)]

\* the conditions under which the claim has the body rewritten
MustRewrite(r) ==
    /\ r.method = Txt.POST
    /\ Contains(HeaderGet(r.header, Txt.hCType), Txt.json)
    /\ Unmarshal(r.body).ok /\ Unmarshal(r.body).v.t = "obj"
    /\ MemberOf(r.body, Key.stream) = [has |-> TRUE, v |-> JBool(TRUE)]
    /\ ~IncludesUsage(r.body)

\* C14: ensureStreamOptions rewrites the body exactly when the request is a
\* POST with a JSON content type whose body is a JSON object with stream true
\* and without stream_options.include_usage true; the new body then has
\* stream_options.include_usage true and Content-Length is its length; in
\* every other case the next stage finds the bytes the request came with.
C14_RewriteExactlyWhenStreaming ==
    hist.applied >= 1 =>
        IF MustRewrite(req0)
        THEN /\ hist.once.body # req0.body
             /\ IncludesUsage(hist.once.body)
             /\ MemberOf(hist.once.body, Key.stream) = [has |-> TRUE, v |-> JBool(TRUE)]
             /\ hist.once.ContentLength = Len(hist.once.body)
             /\ ContentLengthHeader(hist.once) = Itoa(Len(hist.once.body))
        ELSE /\ hist.once.body = req0.body
             /\ hist.once.ContentLength = req0.ContentLength
             /\ ContentLengthHeader(hist.once) = ContentLengthHeader(req0)

\* rule.Model is "*" or the model name, letter case aside
RuleMatches(rule, modelName) ==
    \/ rule.Model = Txt.star
    \/ /\ Len(rule.Model) = Len(modelName)
       /\ \A i \in 1..Len(modelName) : Upper(rule.Model[i]) = Upper(modelName[i])

\* the rules that match the model name and whose draw is below their rate
FiringRules ==
    {i \in 1..Len(cfg.Chaos.Rules) :
        /\ RuleMatches(cfg.Chaos.Rules[i], info.Header.meta.model)
        /\ hist.draws[i] < cfg.Chaos.Rules[i].Rate}

\* the matching rules that fire whatever is drawn
CertainRules ==
    {i \in 1..Len(cfg.Chaos.Rules) :
        /\ RuleMatches(cfg.Chaos.Rules[i], info.Header.meta.model)
        /\ cfg.Chaos.Rules[i].Rate >= 10}

\* the result of a fired rule
ResultOf(rule) ==
    [ShouldInject |-> TRUE, Action |-> rule.Action, Delay |-> rule.Delay,
     StatusCode |-> IF rule.Action = "error" /\ rule.StatusCode = 0 THEN 500
                    ELSE rule.StatusCode,
     Message |-> IF rule.Action = "error" /\ rule.Message = <<>> THEN Txt.chaosMessage
                 ELSE rule.Message]

\* C15: Evaluate does not inject when chaos is disabled; otherwise the result
\* is that of the first rule in declaration order whose model is "*" or the
\* model name, letter case aside, and whose own draw is below its rate: a
\* matching rule of rate 1 or more fires whatever is drawn and no later rule
\* does, a rule of rate 0 or less never fires, and a fired "error" rule with
\* status 0 or no message gets 500 and "Chaos Injection Error".
C15_FirstFiringRule ==
    pc = "evaluated" =>
        /\ ~cfg.Chaos.Enabled => ~chaosRes.ShouldInject
        /\ cfg.Chaos.Enabled /\ FiringRules = {} => ~chaosRes.ShouldInject
        /\ cfg.Chaos.Enabled /\ FiringRules # {} =>
                /\ chaosRes = ResultOf(cfg.Chaos.Rules[Min(FiringRules)])
                /\ cfg.Chaos.Rules[Min(FiringRules)].Rate > 0
                /\ chaosRes.Action = "error" =>
                        chaosRes.StatusCode # 0 /\ chaosRes.Message # <<>>
        /\ cfg.Chaos.Enabled /\ CertainRules # {} =>
                /\ chaosRes.ShouldInject
                /\ Min(FiringRules) <= Min(CertainRules)

C15_Witness ==
    /\ pc = "evaluated" /\ cfg.Chaos.Enabled
    /\ FiringRules # {} /\ Min(FiringRules) = 3
    /\ cfg.Chaos.Rules[3].Model # Txt.star
    /\ cfg.Chaos.Rules[3].Model # info.Header.meta.model
    /\ cfg.Chaos.Rules[3].StatusCode = 0
    /\ chaosRes.ShouldInject /\ chaosRes.StatusCode = 500
    /\ chaosRes.Message = Txt.chaosMessage

\* C20: across every interleaving of concurrent requests no two requests get
\* the same record file: the path each PrepareLogFile creates differs from
\* the path of every other request, so a file holds only what its own
\* request wrote, from the slot on.
C20_FilesNotShared ==
    \A i \in 1..NumRequests :
        pc[i] # "prepare" =>
            /\ \A j \in 1..NumRequests :
                    j # i /\ pc[j] # "prepare" => info[j].Path # info[i].Path
            /\ \A k \in 1..Len(disk[info[i].Path]) : disk[info[i].Path][k].by = i
            /\ pc[i] = "done" =>
                    disk[info[i].Path] = <<Block(i, "header"), Block(i, "request"), Block(i, "response")>>

\* C21: every UsageSniffer.Read returns the (n, err) the Read of the
\* upstream body returned, with the n bytes the upstream delivered, whether
\* the write of those bytes to the record file wrote them all, a part of
\* them or none.
C21_ReadPassesThrough ==
    pc = "write" =>
        /\ Len(pending.data) = pending.n
        /\ pending.data = SubSeq(Responses[up.id].body, up.pos - pending.n + 1, up.pos)
        /\ pending.after = pending.err

C21_Witness ==
    /\ pc = "write" /\ pending.n > 0
    /\ Len(hist.fileBody) < up.pos
    /\ Len(pending.data) = pending.n
    /\ pending.after = pending.err

\* C22: at every point of a request layout.res_body_len is the number of
\* response-body bytes written to the record file so far, partial and
\* failed writes included.
C22_BodyLenIsBytesWritten ==
    snf.attached => info.Header.layout.res_body_len = Len(hist.fileBody)

\* the client went away during a stream response and no operation on the
\* record file failed
ClientGoneMidStream ==
    /\ pc = "done" /\ snf.attached /\ snf.IsStream
    /\ hist.clientWriteFailed
    /\ ~hist.fileWriteFailed /\ hist.updateErr = "nil"

\* the state of the record the claim expects after the interruption
RecordedDespiteInterruption ==
    /\ snf.closed
    /\ hist.rewrites = 1
    /\ StoredHeader.ok
    /\ StoredHeader.h.layout.is_stream
    /\ StoredHeader.h.layout.res_body_len = Len(hist.fileBody)

StatusGiven ==
    IF hist.upstreamCalls = 0 \/ pc = "respond" THEN 200
    ELSE IF up.id = 0 THEN 502
    ELSE Responses[up.id].code

\* C25: the response writer reports 200 until WriteHeader is called and then
\* the code passed to it; its byte count is the sum of the n the underlying
\* Write returned; its TTFT is taken at the first Write and no later Write
\* changes it.
C25_WriterMetrics ==
    /\ [](irw.made =>
            /\ irw.statusCode = StatusGiven
            /\ irw.bytesWritten = Len(client.body)
            /\ irw.ttft \in {-1, TtftMs}
            /\ Len(client.body) > 0 => irw.ttft = TtftMs)
    /\ [][irw.made /\ irw.ttft # -1 => irw'.ttft = irw.ttft]_vars

C25_Witness ==
    /\ irw.made /\ irw.ttft = TtftMs
    /\ irw.bytesWritten > MaxChunk
    /\ pc = "write" /\ irw.statusCode = 503

\* the bytes after the slot are the regions in their order: the request
\* dump, the request body and, once the upstream has answered, the
\* delimiter, the response header and the response body, as far as each was
\* written
RegionsInOrder ==
    info.File # "nil" =>
        \E reqDump \in {DumpRequest(dumpedRequest(req, cfg.MaskKey))} :
            IF ~snf.attached THEN Drop(disk, HeaderLen) = reqDump \o req.body
            ELSE \E d \in {0, 1} :
                    Drop(disk, HeaderLen) =
                        reqDump \o req.body \o Take(<<"\n">>, d)
                            \o Take(DumpResponseHeader(Responses[up.id]),
                                    info.Header.layout.res_header_len)
                            \o hist.fileBody

\* a step appends to the file, or it is the back-patch, which leaves the
\* length of the file and every byte from offset 2048 on as they were
AppendOrBackPatch ==
    \/ /\ Len(disk') >= Len(disk)
       /\ Take(disk', Len(disk)) = disk
    \/ /\ pc = "finalize"
       /\ Len(disk') = Len(disk)
       /\ Drop(disk', HeaderLen) = Drop(disk, HeaderLen)

\* C29: the record file is written append-only in the order slot, request
\* dump, request body, delimiter, response header, response body; the one
\* write below the end of the file is the back-patch of UpdateLogFile, which
\* changes bytes [0, 2048) only and leaves the length of the file unchanged.
C29_AppendOnlyButBackPatch ==
    /\ []RegionsInOrder
    /\ [][AppendOrBackPatch]_vars

C29_Witness ==
    /\ Rewritten /\ Slot # Padding
    /\ Len(hist.fileBody) > 0
    /\ RegionsInOrder

\* C24: every failure of a replay round trip is an error returned by
\* RoundTrip, without a response: a missing file, a file shorter than 2048
\* bytes, no newline in the first 2048 bytes, a header line that is not
\* valid JSON for the header (the initial padding included), a seek
\* failure, and a malformed recorded response where the header points
ReplayFileMissing == fd = "none"

ReplayFileShort == Len(disk) < HeaderLen

ReplayNoNewline == \A i \in 1..HeaderLen : disk[i] # "\n"

ReplayBadJSON == hist.slot \in BadJSONSlots

ReplaySeekFails == hist.slot = "negative"

ReplayResponseMalformed ==
    \/ hist.slot = "valid" /\ hist.region \notin GoodAfterRequest
    \/ hist.slot \in {"null", "no layout"} /\ hist.region \notin GoodAtOnce

ReplayFailure ==
    \/ ReplayFileMissing
    \/ ReplayFileShort
    \/ ReplayNoNewline
    \/ ReplayBadJSON
    \/ ReplaySeekFails
    \/ ReplayResponseMalformed

C24_ReplayFailuresAreErrors ==
    replay.done =>
        /\ ReplayFailure => replay.res.err # "nil" /\ replay.res.resp = BadResponse
        /\ replay.res.err # "nil" => replay.res.resp = BadResponse
        /\ ~ReplayFailure => replay.res.err = "nil" /\ replay.res.resp.ok

C24_Witness ==
    /\ replay.done
    /\ ~ReplayFileMissing /\ hist.slot = "valid" /\ hist.region = "header line"
    /\ replay.res.err = "response"

\* C26: the sniffer changes the header's usage only by assigning it, as a
\* whole, a usage object of the body whose total_tokens is above 0: a body
\* that holds none leaves the usage as it was, and a total that has been
\* positive never returns to 0
NewUsageIsCarried ==
    info'.Header.usage # info.Header.usage =>
        /\ info'.Header.usage.total_tokens > 0
        /\ info'.Header.usage \in SniffBodies[hist.body].carried

UsageStaysPositive ==
    info.Header.usage.total_tokens > 0 => info'.Header.usage.total_tokens > 0

C26_OnlyPositiveUsageAssigned ==
    /\ [](SniffBodies[hist.body].carried = {} => info.Header.usage = ZeroUsage)
    /\ [][NewUsageIsCarried /\ UsageStaysPositive]_vars

C26_Witness ==
    /\ pc = "closed"
    /\ SniffBodies[hist.body].text = SSESuperseded
    /\ hist.fed = Len(SSESuperseded)
    /\ info.Header.usage = UsageInfo(0, 0, 9, <<>>)

\* the last n bytes of s, all of s when it is shorter
Trailing(s, n) == IF Len(s) > n THEN Drop(s, Len(s) - n) ELSE s

\* the bytes of s after its last newline
AfterLastNewline(s) ==
    IF \E j \in 1..Len(s) : s[j] = "\n"
    THEN Drop(s, CHOOSE j \in 1..Len(s) :
                    s[j] = "\n" /\ \A k \in (j + 1)..Len(s) : s[k] # "\n")
    ELSE s

\* C27: after every sniffStream call the line buffer holds at most 65536
\* bytes and no newline, and of an unfinished line longer than that exactly
\* its trailing 65536 bytes
C27_LineBufferBounded ==
    snf.IsStream =>
        /\ Len(snf.lineBuf) <= LineBufMax
        /\ \A i \in 1..Len(snf.lineBuf) : snf.lineBuf[i] # "\n"
        /\ snf.lineBuf =
            Trailing(AfterLastNewline(Take(SniffBodies[hist.body].text, hist.fed)),
                     LineBufMax)

C27_Witness ==
    /\ snf.IsStream
    /\ hist.fed > LineBufMax
    /\ Len(snf.lineBuf) = LineBufMax
    /\ snf.lineBuf = SubSeq(SSEOverflow, hist.fed - LineBufMax + 1, hist.fed)

\* C28: after any sequence of sniffNonStream calls the tail buffer is the
\* last min(4096, total) bytes of all the bytes fed so far
C28_TailIsBodyTail ==
    ~snf.IsStream =>
        snf.tailBuf = Trailing(Take(SniffBodies[hist.body].text, hist.fed), TailMax)

C28_Witness ==
    /\ ~snf.IsStream
    /\ SniffBodies[hist.body].text = RespBodyUsageLast
    /\ hist.fed = Len(RespBodyUsageLast)
    /\ Len(snf.tailBuf) = TailMax
    /\ snf.tailBuf = Drop(RespBodyUsageLast, Len(RespBodyUsageLast) - TailMax)

RECURSIVE FedInPieces(_, _, _, _)
\* the buffers and the usage st after the bytes rest were fed to the
\* sniffer in pieces of size bytes
FedInPieces(rest, stream, size, st) ==
    IF rest = <<>> THEN st
    ELSE FedInPieces(Drop(rest, size), stream, size,
                     IF stream
                     THEN LET r == sniffStream(st.lineBuf, st.usage, Take(rest, size))
                          IN  [st EXCEPT !.lineBuf = r.lineBuf, !.usage = r.usage]
                     ELSE [st EXCEPT !.tailBuf = sniffNonStream(@, Take(rest, size))])

\* the usage once the sniffer is closed
ClosedUsage(stream, st) ==
    IF ~stream /\ st.usage.total_tokens = 0
    THEN extractUsageFromTail(st.tailBuf, st.usage)
    ELSE st.usage

\* for each body, the usage found when it is fed in pieces that all have
\* the largest of its sizes
UsageInEvenPieces ==
    [b \in 1..Len(SniffBodies) |->
        ClosedUsage(SniffBodies[b].stream,
                    FedInPieces(SniffBodies[b].text, SniffBodies[b].stream,
                                Max(SniffBodies[b].pieces),
                                [lineBuf |-> <<>>, tailBuf |-> <<>>, usage |-> ZeroUsage]))]

WholeBodySniffed == pc = "closed" /\ hist.fed = Len(SniffBodies[hist.body].text)

\* the places where a line of the text ends, with the two ends of the text
LineEnds(text) == {0, Len(text)} \cup {i \in 1..Len(text) : text[i] = "\n"}

\* no line of the text, its newline included, is longer than what the line
\* buffer can take in next to a full Read
LinesFit(text) ==
    \A a \in LineEnds(text) :
        a = Len(text) \/ \E b \in LineEnds(text) : b > a /\ b - a <= LineBufMax - CopyBufLen

\* C30: the usage found depends only on the bytes of the body, not on how
\* they are cut into Read calls, in stream mode and in non-stream mode
C30_UsageWhateverChunking ==
    WholeBodySniffed => info.Header.usage = UsageInEvenPieces[hist.body]

\* where the cutting cannot matter: in non-stream mode, and in stream mode
\* for the bodies whose lines are at most LineBufMax - CopyBufLen bytes long
UsageWhateverChunkingIfLinesFit ==
    WholeBodySniffed /\ (snf.IsStream => LinesFit(SniffBodies[hist.body].text)) =>
        info.Header.usage = UsageInEvenPieces[hist.body]

\* the bytes of the request-body region of the record file
RequestBodyRegion ==
    SubSeq(disk, HeaderLen + info.Header.layout.req_header_len + 1,
           HeaderLen + info.Header.layout.req_header_len + info.Header.layout.req_body_len)

\* the reverse proxy was given the request
Forwarded == hist.upstreamCalls > 0

\* C31: for every request handed to the reverse proxy, the request-body
\* region of the record file and req_body_len are those of the body the
\* proxy sends, which is the body ensureStreamOptions left
C31_RecordedBodyIsForwardedBody ==
    Forwarded =>
        /\ info.Header.layout.req_body_len = Len(req.body)
        /\ RequestBodyRegion = req.body

C31_Witness ==
    /\ Forwarded
    /\ req.body # req0.body
    /\ Contains(req.body, Key.stream_options)
    /\ RequestBodyRegion = req.body

\* the status, headers and body bytes of a round trip's result are those of
\* another's
SameResponse(a, b) == a.res = b.res

\* C32 (as claimed): whatever the requests, every round trip over the same
\* record file returns the same status, headers and body bytes (or the same
\* error)
C32_ReplayIgnoresRequest ==
    \A i, j \in 1..Len(replay) : SameResponse(replay[i], replay[j])

\* C32 (amended): the same for the requests whose method is not HEAD; a HEAD
\* request is given the same status and headers, or the same error, and an
\* empty body
C32_ReplayIgnoresRequestButHead ==
    \A i, j \in 1..Len(replay) :
        /\ replay[i].req.method # Txt.HEAD /\ replay[j].req.method # Txt.HEAD =>
                SameResponse(replay[i], replay[j])
        /\ replay[i].res.err = replay[j].res.err
        /\ replay[i].res.err = "nil" =>
            /\ replay[i].res.resp.code = replay[j].res.resp.code
            /\ replay[i].res.resp.status = replay[j].res.resp.status
            /\ replay[i].res.resp.header = replay[j].res.resp.header
            /\ replay[i].req.method = Txt.HEAD => replay[i].res.resp.body = <<>>

C32_Witness ==
    /\ Len(replay) = 2
    /\ replay[1].req.method = Txt.POST /\ replay[2].req.method = Txt.GET
    /\ replay[1].req.body # replay[2].req.body
    /\ replay[1].res.err = "nil"
    /\ replay[2].res.resp.body = RespBodyJSON

\* the handles the round trips opened that are open
OpenHandles == {i \in 1..Len(replay) : replay[i].handle = "open"}

\* the round trips that returned a response whose body was not closed
UnclosedResponses ==
    {i \in 1..Len(replay) : replay[i].res.err = "nil" /\ ~replay[i].bodyClosed}

\* C33: the open handles of the Transport are those of the responses whose
\* body has not been closed: a round trip that returns an error leaves no
\* open handle, and closing a body closes its handle
C33_NoHandleLeak ==
    /\ Cardinality(OpenHandles) = Cardinality(UnclosedResponses)
    /\ OpenHandles = UnclosedResponses
    /\ \A i \in 1..Len(replay) : replay[i].res.err # "nil" => replay[i].handle # "open"

C33_Witness ==
    /\ Len(replay) = 2
    /\ replay[1].res.err = "nil" /\ replay[1].bodyClosed /\ replay[1].handle = "closed"
    /\ replay[2].res.err = "nil" /\ ~replay[2].bodyClosed /\ replay[2].handle = "open"

\* C35: ParseLogFile never indexes outside the content: for every content
\* whose first line decodes as a RecordHeader, whatever the layout lengths
\* of the header and however short the content, it returns parsed data or
\* an error and never slices out of bounds
C35_ParseNeverOutOfBounds ==
    pc = "answered" /\ fd # "none" => client.parsed.outcome \in {"parsed", "error"}

\* the requests whose deferred function has put the whole JSON of the
\* final header into the file
BackPatched == {i \in 1..ScannedRequests : pc[i] \in {"patching", "done"}}

\* C34: a monitor scan running concurrently with in-flight requests never
\* lists a request whose header has not been back-patched: a file whose
\* slot is still the initial padding (or that is still empty) is skipped,
\* every listed entry carries the final header of a request that has been
\* finalized, under the path of that request, and SuccessRequest +
\* FailedRequest equals TotalRequest, the number of files listed
C34_ScanListsOnlyFinalized ==
    /\ \A k \in 1..Len(client.visited) :
        client.visited[k].padding \/ client.visited[k].blank => ~client.visited[k].listed
    /\ \A k \in 1..Len(client.entries) :
        \E i \in BackPatched :
            /\ info[i].Path = client.entries[k].LogPath
            /\ info[i].Header = client.entries[k].Header
    /\ client.phase = "listed" =>
        /\ client.Stats.SuccessRequest + client.Stats.FailedRequest = client.Stats.TotalRequest
        /\ client.Stats.TotalRequest = Len(client.entries)
        /\ Len(client.Logs) = Len(client.entries)

\* a scan that ended while a request was in flight: it visited two files,
\* skipped the one whose slot was the padding and listed the other
C34_Witness ==
    /\ client.phase = "listed"
    /\ \E i \in 1..ScannedRequests : pc[i] \in {"dump", "proxy", "finalize"}
    /\ Len(client.visited) = 2
    /\ \E k \in 1..2 : client.visited[k].padding /\ ~client.visited[k].listed
    /\ Len(client.Logs) = 1
    /\ client.Stats.TotalRequest = 1

====
